---- MODULE Spec2Model ----
(***************************************************************************)
(* A model of the baby-tracker bot of src/main.py: the SQLite tables       *)
(* behind class Database, the Database methods, and the aiogram handlers   *)
(* that call them.                                                         *)
(*                                                                         *)
(* The database is one record `db` with a set of rows per table and the    *)
(* AUTOINCREMENT counters (sqlite_sequence).  A Database method is a       *)
(* transaction: a list of SQL statements executed on a working copy that   *)
(* is committed at the end, or rolled back when a statement raises.        *)
(* A handler is one action: everything it does between two updates.        *)
(*                                                                         *)
(* Time is the wall clock datetime.now() in seconds; it advances only in   *)
(* Tick and never runs backwards.                                          *)
(***************************************************************************)
EXTENDS Integers, Sequences, FiniteSets, TLC

VARIABLES
    db,      \* the tables of baby_tracker.db
    fsm,     \* aiogram MemoryStorage: FSM state and data per (chat, user)
    now,     \* datetime.now(), in seconds
    last,    \* the last update that wrote to the database (history)
    tasks    \* handler coroutines in flight (the interleaved specification)

vars == <<db, fsm, now, last, tasks>>

----------------------------------------------------------------------------
(* Bounds of the model *)

MaxTicks == 2          \* the clock stops after this many ticks
TickSeconds == 40      \* seconds per tick: durations of 0, 1, 2 minutes occur
MaxRows == 3           \* sleep and wakefulness rows ever inserted
MaxFeedRows == 2       \* feedings ever inserted
MaxEatenMl == 15       \* the eaten total is not driven past this
MaxPauses == 2         \* pauses of one feeding
MaxChildren == 2       \* children ever inserted
MaxMeasurements == 4   \* measurements ever inserted
MaxEvents == 3         \* diaper and journal rows ever inserted
MaxIsoRows == 5        \* interval, diaper, note and measurement rows of SpecIso

----------------------------------------------------------------------------
(* Values *)

NULL == -1             \* SQL NULL / Python None in an integer column

None == [id |-> NULL]  \* fetchone() found no row

Chats == {1, 2}        \* chat identities (message.chat.id)
Users == {1, 2}        \* user identities (from_user.id)

TableNames == {"children", "reminders", "measurements", "feedings",
               "sleep_tracker", "wakefulness_tracker", "diaper_tracker",
               "journal_notes", "daily_checklists"}

\* init_db: every table exists and is empty
EmptyDb ==
    [children |-> {}, reminders |-> {}, measurements |-> {}, feedings |-> {},
     sleep_tracker |-> {}, wakefulness_tracker |-> {}, diaper_tracker |-> {},
     journal_notes |-> {}, daily_checklists |-> {},
     seq |-> [t \in TableNames |-> 0]]

\* int(x / 60) of Python: the quotient truncated towards zero
TruncDiv(a, b) == IF a >= 0 THEN a \div b ELSE -((-a) \div b)

\* date of a timestamp: a day has 86400 seconds
SecondsPerDay == 86400
DateOf(t) == t \div SecondsPerDay

\* fetchone(): the first row of the result; rows that tie in the ORDER BY
\* come in rowid order
FirstRow(rows) == CHOOSE r \in rows : \A q \in rows : r.id <= q.id

----------------------------------------------------------------------------
(* SQL statements.  A statement is a record naming the SQL text and its    *)
(* parameters; Exec runs one statement on a working copy of the database.  *)

Insert(d, table, row) ==
    [d EXCEPT ![table] = @ \cup {row}, !.seq[table] = @ + 1]

\* cursor.lastrowid of the next INSERT into the table (AUTOINCREMENT)
NextId(d, table) == d.seq[table] + 1

Exec(d, s) ==
    CASE s.sql = "INSERT INTO children" ->
           Insert(d, "children",
             [id |-> NextId(d, "children"), chat_id |-> s.chat_id,
              first_name |-> s.data.first_name, last_name |-> s.data.last_name,
              gender |-> s.data.gender, birth_date |-> s.data.birth_date,
              gestation_weeks |-> s.data.gestation_weeks,
              gestation_days |-> s.data.gestation_days,
              birth_weight |-> s.data.birth_weight,
              birth_height |-> s.data.birth_height])
      [] s.sql = "INSERT INTO reminders" ->
           Insert(d, "reminders",
             [id |-> NextId(d, "reminders"), chat_id |-> s.chat_id,
              child_id |-> s.child_id, reminder_type |-> s.reminder_type,
              next_reminder |-> s.next_reminder,
              frequency_days |-> s.frequency_days, is_active |-> 1])
      [] s.sql = "INSERT INTO measurements" ->
           Insert(d, "measurements",
             [id |-> NextId(d, "measurements"), child_id |-> s.child_id,
              weight |-> s.weight, height |-> s.height,
              measurement_date |-> s.measurement_date,
              age_days |-> s.age_days, recorded_at |-> s.recorded_at])
      [] s.sql = "UPDATE reminders SET next_reminder" ->
           [d EXCEPT !.reminders =
              {IF r.child_id = s.child_id /\ r.reminder_type = "weight_height"
                  /\ r.is_active = 1
               THEN [r EXCEPT !.next_reminder = s.today + r.frequency_days]
               ELSE r : r \in @}]
      [] s.sql = "INSERT INTO sleep_tracker" ->
           Insert(d, "sleep_tracker",
             [id |-> NextId(d, "sleep_tracker"), child_id |-> s.child_id,
              sleep_start |-> s.sleep_start, sleep_end |-> NULL,
              duration_minutes |-> NULL])
      [] s.sql = "UPDATE sleep_tracker SET sleep_end" ->
           [d EXCEPT !.sleep_tracker =
              {IF r.id = s.id
               THEN [r EXCEPT !.sleep_end = s.sleep_end,
                              !.duration_minutes = s.duration]
               ELSE r : r \in @}]
      [] s.sql = "INSERT INTO wakefulness_tracker" ->
           Insert(d, "wakefulness_tracker",
             [id |-> NextId(d, "wakefulness_tracker"), child_id |-> s.child_id,
              wake_start |-> s.wake_start, wake_end |-> NULL,
              duration_minutes |-> NULL])
      [] s.sql = "UPDATE wakefulness_tracker SET wake_end" ->
           [d EXCEPT !.wakefulness_tracker =
              {IF r.id = s.id
               THEN [r EXCEPT !.wake_end = s.wake_end,
                              !.duration_minutes = s.duration]
               ELSE r : r \in @}]
      [] s.sql = "INSERT INTO diaper_tracker" ->
           Insert(d, "diaper_tracker",
             [id |-> NextId(d, "diaper_tracker"), child_id |-> s.child_id,
              timestamp |-> s.timestamp, type |-> s.type])
      [] s.sql = "INSERT INTO journal_notes" ->
           Insert(d, "journal_notes",
             [id |-> NextId(d, "journal_notes"), child_id |-> s.child_id,
              note |-> s.note, category |-> s.category,
              created_at |-> s.created_at])
      [] s.sql = "UPDATE daily_checklists SET field" ->
           [d EXCEPT !.daily_checklists =
              {IF r.id = s.id THEN [r EXCEPT ![s.field] = s.value] ELSE r
               : r \in @}]
      [] s.sql = "INSERT INTO daily_checklists" ->
           Insert(d, "daily_checklists",
             [[id |-> NextId(d, "daily_checklists"), child_id |-> s.child_id,
               date |-> s.date, feeding_done |-> 0, diapers_changed |-> 0,
               sleep_adequate |-> 0, tummy_time |-> 0, bath_given |-> 0,
               medicines_given |-> 0] EXCEPT ![s.field] = s.value])
      [] s.sql = "INSERT INTO feedings" ->
           Insert(d, "feedings",
             [id |-> NextId(d, "feedings"), chat_id |-> s.chat_id,
              child_id |-> s.child_id, start_time |-> s.start_time,
              end_time |-> NULL, prepared_ml |-> NULL,
              total_eaten_ml |-> NULL, is_paused |-> 0, paused_at |-> NULL,
              pauses_count |-> 0, total_pause_duration |-> 0])
      [] s.sql = "UPDATE feedings SET prepared_ml" ->
           [d EXCEPT !.feedings =
              {IF r.id = s.id THEN [r EXCEPT !.prepared_ml = s.prepared_ml]
               ELSE r : r \in @}]
      [] s.sql = "UPDATE feedings SET is_paused = 1" ->
           [d EXCEPT !.feedings =
              {IF r.id = s.id
               THEN [r EXCEPT !.is_paused = 1, !.paused_at = s.paused_at,
                              !.pauses_count = @ + 1]
               ELSE r : r \in @}]
      [] s.sql = "UPDATE feedings SET is_paused = 0" ->
           [d EXCEPT !.feedings =
              {IF r.id = s.id
               THEN [r EXCEPT !.is_paused = 0, !.paused_at = NULL,
                              !.total_pause_duration = @ + s.pause_duration]
               ELSE r : r \in @}]
      [] s.sql = "UPDATE feedings SET total_eaten_ml" ->
           [d EXCEPT !.feedings =
              {IF r.id = s.id
               THEN [r EXCEPT !.total_eaten_ml =
                       (IF @ = NULL THEN 0 ELSE @) + s.eaten_ml]
               ELSE r : r \in @}]
      [] s.sql = "UPDATE feedings SET end_time" ->
           [d EXCEPT !.feedings =
              {IF r.id = s.id THEN [r EXCEPT !.end_time = s.end_time]
               ELSE r : r \in @}]
      [] s.sql = "DELETE FROM feedings" ->
           [d EXCEPT !.feedings = {r \in @ : r.id # s.id}]

RECURSIVE ExecAll(_, _)
ExecAll(d, stmts) ==
    IF stmts = <<>> THEN d ELSE ExecAll(Exec(d, Head(stmts)), Tail(stmts))

\* conn.commit(): the working copy becomes the stored database
commit(d, work) == work

\* mutant: the statements executed before the exception stay
rollback_missing(d, work) == work

\* conn.rollback() in the except clause: the stored database is as it was
\* when the connection was opened
rollback(d, work) == d

\* One Database method: try: the statements, conn.commit(); except:
\* conn.rollback(), raise.  failAt = k in 1..Len(stmts) makes statement k
\* raise, failAt = Len(stmts) + 1 makes conn.commit() raise, anything else
\* lets the method return normally.
Txn(d, stmts, failAt) ==
    IF failAt \in 1..(Len(stmts) + 1)
    THEN [db |-> rollback(d, ExecAll(d, SubSeq(stmts, 1, failAt - 1))),
          raised |-> TRUE]
    ELSE [db |-> commit(d, ExecAll(d, stmts)), raised |-> FALSE]

----------------------------------------------------------------------------
(* class Database.  A reading method returns a row or None; a mutating     *)
(* method returns [db, raised]: the stored database after the call and     *)
(* whether the call raised.  t is datetime.now() at the call.              *)

\* SELECT * FROM children WHERE chat_id = ?, fetchone(): the table is
\* scanned in rowid order, so the first match is the one with the least id
get_child(d, chat_id) ==
    LET rows == {r \in d.children : r.chat_id = chat_id}
    IN  IF rows = {} THEN None ELSE FirstRow(rows)

\* the three reminders register_child creates: (reminder_type, frequency)
RegistrationReminders ==
    << <<"weight_height", 1>>, <<"weight_height", 7>>, <<"weight_height", 30>> >>

register_child(d, chat_id, child_data, t, failAt) ==
    LET child_id == NextId(d, "children")
        today == DateOf(t)
    IN  Txn(d,
            << [sql |-> "INSERT INTO children", chat_id |-> chat_id,
                data |-> child_data] >>
            \o [i \in 1..Len(RegistrationReminders) |->
                 [sql |-> "INSERT INTO reminders", chat_id |-> chat_id,
                  child_id |-> child_id,
                  reminder_type |-> RegistrationReminders[i][1],
                  next_reminder |-> today,
                  frequency_days |-> RegistrationReminders[i][2]]],
            failAt)

\* mutant: no `if row:` guard, the statements run for any child id
add_measurement_norowcheck(d, child_id, weight, height, t, failAt) ==
    LET today == DateOf(t)
    IN  Txn(d,
            << [sql |-> "INSERT INTO measurements",
                child_id |-> child_id, weight |-> weight,
                height |-> height, measurement_date |-> today,
                age_days |-> NULL, recorded_at |-> t],
               [sql |-> "UPDATE reminders SET next_reminder",
                today |-> today, child_id |-> child_id] >>,
            failAt)

add_measurement(d, child_id, weight, height, t, failAt) ==
    LET rows == {r \in d.children : r.id = child_id}
        today == DateOf(t)
    IN  IF rows = {}
        THEN Txn(d, <<>>, failAt)
        ELSE LET row == CHOOSE r \in rows : TRUE
                 age_days == today - row.birth_date
             IN  Txn(d,
                     << [sql |-> "INSERT INTO measurements",
                         child_id |-> child_id, weight |-> weight,
                         height |-> height, measurement_date |-> today,
                         age_days |-> age_days, recorded_at |-> t],
                        [sql |-> "UPDATE reminders SET next_reminder",
                         today |-> today, child_id |-> child_id] >>,
                     failAt)

\* the rows the query of get_last_measurement may return: those that are
\* first by measurement_date DESC, recorded_at DESC.  SQL leaves the order
\* of rows equal in both keys open, and LIMIT 1 takes whichever comes
\* first.
last_measurement_rows(d, child_id) ==
    LET rows == {r \in d.measurements : r.child_id = child_id}
    IN  {r \in rows : \A q \in rows :
           \/ r.measurement_date > q.measurement_date
           \/ /\ r.measurement_date = q.measurement_date
              /\ r.recorded_at >= q.recorded_at}

\* ORDER BY measurement_date DESC, recorded_at DESC LIMIT 1
get_last_measurement(d, child_id) ==
    LET rows == {r \in d.measurements : r.child_id = child_id}
        top == {r \in rows : \A q \in rows :
                   \/ r.measurement_date > q.measurement_date
                   \/ /\ r.measurement_date = q.measurement_date
                      /\ r.recorded_at >= q.recorded_at}
    IN  IF rows = {} THEN None ELSE FirstRow(top)

start_sleep(d, child_id, t, failAt) ==
    Txn(d, << [sql |-> "INSERT INTO sleep_tracker", child_id |-> child_id,
               sleep_start |-> t] >>, failAt)

\* mutant: the difference is not divided by 60
DurationSeconds(start, end) == end - start

\* duration = int((end - start).total_seconds() / 60)
DurationMinutes(start, end) == TruncDiv(end - start, 60)

end_sleep(d, sleep_id, t, failAt) ==
    LET rows == {r \in d.sleep_tracker : r.id = sleep_id}
    IN  IF rows = {}
        THEN Txn(d, <<>>, failAt)
        ELSE LET row == CHOOSE r \in rows : TRUE
             IN  Txn(d, << [sql |-> "UPDATE sleep_tracker SET sleep_end",
                            sleep_end |-> t,
                            duration |-> DurationMinutes(row.sleep_start, t),
                            id |-> sleep_id] >>, failAt)

\* WHERE child_id = ? AND sleep_end IS NULL ORDER BY sleep_start DESC LIMIT 1
get_active_sleep(d, child_id) ==
    LET rows == {r \in d.sleep_tracker :
                    r.child_id = child_id /\ r.sleep_end = NULL}
        top == {r \in rows : \A q \in rows : r.sleep_start >= q.sleep_start}
    IN  IF rows = {} THEN None ELSE FirstRow(top)

start_wakefulness(d, child_id, t, failAt) ==
    Txn(d, << [sql |-> "INSERT INTO wakefulness_tracker",
               child_id |-> child_id, wake_start |-> t] >>, failAt)

end_wakefulness(d, wake_id, t, failAt) ==
    LET rows == {r \in d.wakefulness_tracker : r.id = wake_id}
    IN  IF rows = {}
        THEN Txn(d, <<>>, failAt)
        ELSE LET row == CHOOSE r \in rows : TRUE
             IN  Txn(d, << [sql |-> "UPDATE wakefulness_tracker SET wake_end",
                            wake_end |-> t,
                            duration |-> DurationMinutes(row.wake_start, t),
                            id |-> wake_id] >>, failAt)

get_active_wakefulness(d, child_id) ==
    LET rows == {r \in d.wakefulness_tracker :
                    r.child_id = child_id /\ r.wake_end = NULL}
        top == {r \in rows : \A q \in rows : r.wake_start >= q.wake_start}
    IN  IF rows = {} THEN None ELSE FirstRow(top)

add_diaper(d, child_id, diaper_type, t, failAt) ==
    Txn(d, << [sql |-> "INSERT INTO diaper_tracker", child_id |-> child_id,
               timestamp |-> t, type |-> diaper_type] >>, failAt)

add_journal_note(d, child_id, note, t, failAt) ==
    Txn(d, << [sql |-> "INSERT INTO journal_notes", child_id |-> child_id,
               note |-> note, category |-> NULL, created_at |-> t] >>, failAt)

\* mutant: no SELECT for the row of the day, every call inserts a row
update_daily_checklist_insertonly(d, child_id, date, field, value, failAt) ==
    Txn(d, << [sql |-> "INSERT INTO daily_checklists",
               child_id |-> child_id, date |-> date,
               field |-> field, value |-> value] >>, failAt)

update_daily_checklist(d, child_id, date, field, value, failAt) ==
    LET rows == {r \in d.daily_checklists :
                    r.child_id = child_id /\ r.date = date}
    IN  IF rows # {}
        THEN Txn(d, << [sql |-> "UPDATE daily_checklists SET field",
                        field |-> field, value |-> value,
                        id |-> FirstRow(rows).id] >>, failAt)
        ELSE Txn(d, << [sql |-> "INSERT INTO daily_checklists",
                        child_id |-> child_id, date |-> date,
                        field |-> field, value |-> value] >>, failAt)

start_feeding(d, chat_id, child_id, t, failAt) ==
    Txn(d, << [sql |-> "INSERT INTO feedings", chat_id |-> chat_id,
               child_id |-> child_id, start_time |-> t] >>, failAt)

pause_feeding(d, feeding_id, t, failAt) ==
    Txn(d, << [sql |-> "UPDATE feedings SET is_paused = 1",
               paused_at |-> t, id |-> feeding_id] >>, failAt)

\* mutant: the pause is counted from the epoch, not from paused_at
resume_feeding_fromepoch(d, feeding_id, t, failAt) ==
    LET rows == {r \in d.feedings : r.id = feeding_id}
    IN  IF rows = {} \/ (CHOOSE r \in rows : TRUE).paused_at = NULL
        THEN Txn(d, <<>>, failAt)
        ELSE LET row == CHOOSE r \in rows : TRUE
             IN  Txn(d, << [sql |-> "UPDATE feedings SET is_paused = 0",
                            pause_duration |-> t,
                            id |-> feeding_id] >>, failAt)

resume_feeding(d, feeding_id, t, failAt) ==
    LET rows == {r \in d.feedings : r.id = feeding_id}
    IN  IF rows = {} \/ (CHOOSE r \in rows : TRUE).paused_at = NULL
        THEN Txn(d, <<>>, failAt)
        ELSE LET row == CHOOSE r \in rows : TRUE
             IN  Txn(d, << [sql |-> "UPDATE feedings SET is_paused = 0",
                            pause_duration |-> t - row.paused_at,
                            id |-> feeding_id] >>, failAt)

\* mutant: the amount is added twice
add_eaten_ml_twice(d, feeding_id, eaten_ml, failAt) ==
    Txn(d, << [sql |-> "UPDATE feedings SET total_eaten_ml",
               eaten_ml |-> eaten_ml, id |-> feeding_id],
              [sql |-> "UPDATE feedings SET total_eaten_ml",
               eaten_ml |-> eaten_ml, id |-> feeding_id] >>, failAt)

add_eaten_ml(d, feeding_id, eaten_ml, failAt) ==
    Txn(d, << [sql |-> "UPDATE feedings SET total_eaten_ml",
               eaten_ml |-> eaten_ml, id |-> feeding_id] >>, failAt)

finish_feeding(d, feeding_id, t, failAt) ==
    Txn(d, << [sql |-> "UPDATE feedings SET end_time", end_time |-> t,
               id |-> feeding_id] >>, failAt)

\* mutant: AND end_time IS NULL is missing
get_active_feeding_anyend(d, chat_id) ==
    LET rows == {r \in d.feedings : r.chat_id = chat_id}
        top == {r \in rows : \A q \in rows : r.start_time >= q.start_time}
    IN  IF rows = {} THEN None ELSE FirstRow(top)

\* mutant: WHERE chat_id = ? is missing
get_active_feeding_anychat(d, chat_id) ==
    LET rows == {r \in d.feedings : r.end_time = NULL}
        top == {r \in rows : \A q \in rows : r.start_time >= q.start_time}
    IN  IF rows = {} THEN None ELSE FirstRow(top)

\* WHERE chat_id = ? AND end_time IS NULL ORDER BY start_time DESC LIMIT 1
get_active_feeding(d, chat_id) ==
    LET rows == {r \in d.feedings : r.chat_id = chat_id /\ r.end_time = NULL}
        top == {r \in rows : \A q \in rows : r.start_time >= q.start_time}
    IN  IF rows = {} THEN None ELSE FirstRow(top)

----------------------------------------------------------------------------
(* Handlers.  A handler is modelled twice: an operator of the stored       *)
(* database d, the chat, the time t and the inputs, giving                 *)
(*   [db, out, calls]: the database it leaves, the reply it ends with and  *)
(*   the mutating Database calls it completed, in order;                   *)
(* and the action that applies it to the state.  `fail` names the Database *)
(* call that raises in this run ("none": no call raises); an exception     *)
(* leaves the handler, which aiogram logs.                                 *)

FailAt(fail, method) == IF fail = method THEN 1 ELSE 0

Result(d, out, calls) == [db |-> d, out |-> out, calls |-> calls]

\* mutant: the check for an open sleep is missing
start_sleep_callback_nocheck(d, chat_id, t, fail) ==
    LET child == get_child(d, chat_id) IN
    IF child = None THEN Result(d, "no_child", <<>>) ELSE
    LET active_wake == get_active_wakefulness(d, child.id)
        r1 == IF active_wake # None
              THEN end_wakefulness(d, active_wake.id, t,
                                   FailAt(fail, "end_wakefulness"))
              ELSE [db |-> d, raised |-> FALSE]
        c1 == IF active_wake # None THEN <<"end_wakefulness">> ELSE <<>>
    IN
    IF r1.raised THEN Result(r1.db, "error", <<>>) ELSE
    LET r2 == start_sleep(r1.db, child.id, t, FailAt(fail, "start_sleep")) IN
    IF r2.raised THEN Result(r2.db, "error", c1)
    ELSE Result(r2.db, "ok", c1 \o <<"start_sleep">>)

\* mutant: the sleep row is inserted first and the open wakefulness is
\* closed after it
start_sleep_callback_insertfirst(d, chat_id, t, fail) ==
    LET child == get_child(d, chat_id) IN
    IF child = None THEN Result(d, "no_child", <<>>) ELSE
    LET active_sleep == get_active_sleep(d, child.id) IN
    IF active_sleep # None THEN Result(d, "already_active", <<>>) ELSE
    LET active_wake == get_active_wakefulness(d, child.id)
        r1 == start_sleep(d, child.id, t, FailAt(fail, "start_sleep"))
    IN
    IF r1.raised THEN Result(r1.db, "error", <<>>) ELSE
    LET r2 == IF active_wake # None
              THEN end_wakefulness(r1.db, active_wake.id, t,
                                   FailAt(fail, "end_wakefulness"))
              ELSE [db |-> r1.db, raised |-> FALSE]
        c2 == IF active_wake # None THEN <<"end_wakefulness">> ELSE <<>>
    IN
    IF r2.raised THEN Result(r2.db, "error", <<"start_sleep">>)
    ELSE Result(r2.db, "ok", <<"start_sleep">> \o c2)

start_sleep_callback(d, chat_id, t, fail) ==
    LET child == get_child(d, chat_id) IN
    IF child = None THEN Result(d, "no_child", <<>>) ELSE
    LET active_sleep == get_active_sleep(d, child.id) IN
    IF active_sleep # None THEN Result(d, "already_active", <<>>) ELSE
    LET active_wake == get_active_wakefulness(d, child.id)
        r1 == IF active_wake # None
              THEN end_wakefulness(d, active_wake.id, t,
                                   FailAt(fail, "end_wakefulness"))
              ELSE [db |-> d, raised |-> FALSE]
        c1 == IF active_wake # None THEN <<"end_wakefulness">> ELSE <<>>
    IN
    IF r1.raised THEN Result(r1.db, "error", <<>>) ELSE
    LET r2 == start_sleep(r1.db, child.id, t, FailAt(fail, "start_sleep")) IN
    IF r2.raised THEN Result(r2.db, "error", c1)
    ELSE Result(r2.db, "ok", c1 \o <<"start_sleep">>)

\* mutant: ending the sleep starts a wakefulness
end_sleep_callback_startswake(d, chat_id, t, fail) ==
    LET child == get_child(d, chat_id) IN
    IF child = None THEN Result(d, "no_child", <<>>) ELSE
    LET active_sleep == get_active_sleep(d, child.id) IN
    IF active_sleep = None THEN Result(d, "not_active", <<>>) ELSE
    LET r1 == end_sleep(d, active_sleep.id, t, FailAt(fail, "end_sleep")) IN
    IF r1.raised THEN Result(r1.db, "error", <<>>) ELSE
    LET r2 == start_wakefulness(r1.db, child.id, t, 0) IN
    Result(r2.db, "ok", <<"end_sleep">>)

end_sleep_callback(d, chat_id, t, fail) ==
    LET child == get_child(d, chat_id) IN
    IF child = None THEN Result(d, "no_child", <<>>) ELSE
    LET active_sleep == get_active_sleep(d, child.id) IN
    IF active_sleep = None THEN Result(d, "not_active", <<>>) ELSE
    LET r1 == end_sleep(d, active_sleep.id, t, FailAt(fail, "end_sleep")) IN
    IF r1.raised THEN Result(r1.db, "error", <<>>)
    ELSE Result(r1.db, "ok", <<"end_sleep">>)

\* mutant: an open sleep is left open when the wakefulness starts
start_wake_callback_keepsleep(d, chat_id, t, fail) ==
    LET child == get_child(d, chat_id) IN
    IF child = None THEN Result(d, "no_child", <<>>) ELSE
    LET active_wake == get_active_wakefulness(d, child.id) IN
    IF active_wake # None THEN Result(d, "already_active", <<>>) ELSE
    LET r2 == start_wakefulness(d, child.id, t,
                                FailAt(fail, "start_wakefulness")) IN
    IF r2.raised THEN Result(r2.db, "error", <<>>)
    ELSE Result(r2.db, "ok", <<"start_wakefulness">>)

start_wake_callback(d, chat_id, t, fail) ==
    LET child == get_child(d, chat_id) IN
    IF child = None THEN Result(d, "no_child", <<>>) ELSE
    LET active_wake == get_active_wakefulness(d, child.id) IN
    IF active_wake # None THEN Result(d, "already_active", <<>>) ELSE
    LET active_sleep == get_active_sleep(d, child.id)
        r1 == IF active_sleep # None
              THEN end_sleep(d, active_sleep.id, t, FailAt(fail, "end_sleep"))
              ELSE [db |-> d, raised |-> FALSE]
        c1 == IF active_sleep # None THEN <<"end_sleep">> ELSE <<>>
    IN
    IF r1.raised THEN Result(r1.db, "error", <<>>) ELSE
    LET r2 == start_wakefulness(r1.db, child.id, t,
                                FailAt(fail, "start_wakefulness")) IN
    IF r2.raised THEN Result(r2.db, "error", c1)
    ELSE Result(r2.db, "ok", c1 \o <<"start_wakefulness">>)

end_wake_callback(d, chat_id, t, fail) ==
    LET child == get_child(d, chat_id) IN
    IF child = None THEN Result(d, "no_child", <<>>) ELSE
    LET active_wake == get_active_wakefulness(d, child.id) IN
    IF active_wake = None THEN Result(d, "not_active", <<>>) ELSE
    LET r1 == end_wakefulness(d, active_wake.id, t,
                              FailAt(fail, "end_wakefulness")) IN
    IF r1.raised THEN Result(r1.db, "error", <<>>)
    ELSE Result(r1.db, "ok", <<"end_wakefulness">>)

\* mutant: starting a feeding ends the child's open sleep
start_feeding_callback_interrupts(d, chat_id, t, has_message, fail) ==
    IF ~has_message THEN Result(d, "no_message", <<>>) ELSE
    LET child == get_child(d, chat_id) IN
    IF child = None THEN Result(d, "no_child", <<>>) ELSE
    IF get_active_feeding(d, chat_id) # None
    THEN Result(d, "already_active", <<>>) ELSE
    LET active_sleep == get_active_sleep(d, child.id)
        r0 == IF active_sleep # None
              THEN end_sleep(d, active_sleep.id, t, 0)
              ELSE [db |-> d, raised |-> FALSE]
        r1 == start_feeding(r0.db, chat_id, child.id, t,
                            FailAt(fail, "start_feeding"))
    IN
    IF r1.raised THEN Result(r1.db, "error", <<>>)
    ELSE Result(r1.db, "ok", <<"start_feeding">>)

\* mutant: the check for an open feeding is missing
start_feeding_callback_nocheck(d, chat_id, t, has_message, fail) ==
    IF ~has_message THEN Result(d, "no_message", <<>>) ELSE
    LET child == get_child(d, chat_id) IN
    IF child = None THEN Result(d, "no_child", <<>>) ELSE
    LET r1 == start_feeding(d, chat_id, child.id, t,
                            FailAt(fail, "start_feeding")) IN
    IF r1.raised THEN Result(r1.db, "error", <<>>)
    ELSE Result(r1.db, "ok", <<"start_feeding">>)

\* has_message: callback.message is set (the button's message still exists)
start_feeding_callback(d, chat_id, t, has_message, fail) ==
    IF ~has_message THEN Result(d, "no_message", <<>>) ELSE
    LET child == get_child(d, chat_id) IN
    IF child = None THEN Result(d, "no_child", <<>>) ELSE
    LET active_feeding == get_active_feeding(d, chat_id) IN
    IF active_feeding # None THEN Result(d, "already_active", <<>>) ELSE
    LET r1 == start_feeding(d, chat_id, child.id, t,
                            FailAt(fail, "start_feeding")) IN
    IF r1.raised THEN Result(r1.db, "error", <<>>)
    ELSE Result(r1.db, "ok", <<"start_feeding">>)

\* the quick-add buttons and the amount each adds
ml_map ==
    [add_5 |-> 5, add_10 |-> 10, add_20 |-> 20, add_30 |-> 30,
     add_50 |-> 50, add_100 |-> 100]

add_eaten_quick_callback(d, chat_id, data, fail) ==
    LET feeding == get_active_feeding(d, chat_id) IN
    IF feeding = None THEN Result(d, "no_feeding", <<>>) ELSE
    LET eaten_ml == ml_map[data]
        r1 == add_eaten_ml(d, feeding.id, eaten_ml,
                           FailAt(fail, "add_eaten_ml")) IN
    IF r1.raised THEN Result(r1.db, "error", <<>>) ELSE
    IF get_child(r1.db, chat_id) = None
    THEN Result(r1.db, "no_child", <<"add_eaten_ml">>)
    ELSE Result(r1.db, "ok", <<"add_eaten_ml">>)

\* mutant: a feeding that is already paused is paused again
pause_feeding_callback_nocheck(d, chat_id, t, has_message, fail) ==
    IF ~has_message THEN Result(d, "no_message", <<>>) ELSE
    LET feeding == get_active_feeding(d, chat_id) IN
    IF feeding = None THEN Result(d, "no_feeding", <<>>) ELSE
    LET r1 == pause_feeding(d, feeding.id, t,
                            FailAt(fail, "pause_feeding")) IN
    IF r1.raised THEN Result(r1.db, "error", <<>>)
    ELSE Result(r1.db, "ok", <<"pause_feeding">>)

pause_feeding_callback(d, chat_id, t, has_message, fail) ==
    IF ~has_message THEN Result(d, "no_message", <<>>) ELSE
    LET feeding == get_active_feeding(d, chat_id) IN
    IF feeding = None THEN Result(d, "no_feeding", <<>>) ELSE
    IF feeding.is_paused # 0 THEN Result(d, "already_paused", <<>>) ELSE
    LET r1 == pause_feeding(d, feeding.id, t,
                            FailAt(fail, "pause_feeding")) IN
    IF r1.raised THEN Result(r1.db, "error", <<>>)
    ELSE Result(r1.db, "ok", <<"pause_feeding">>)

resume_feeding_callback(d, chat_id, t, has_message, fail) ==
    IF ~has_message THEN Result(d, "no_message", <<>>) ELSE
    LET feeding == get_active_feeding(d, chat_id) IN
    IF feeding = None \/ feeding.is_paused = 0
    THEN Result(d, "not_paused", <<>>) ELSE
    LET r1 == resume_feeding(d, feeding.id, t,
                             FailAt(fail, "resume_feeding")) IN
    IF r1.raised THEN Result(r1.db, "error", <<>>)
    ELSE Result(r1.db, "ok", <<"resume_feeding">>)

finish_feeding_callback(d, chat_id, t, has_message, fail) ==
    IF ~has_message THEN Result(d, "no_message", <<>>) ELSE
    LET feeding == get_active_feeding(d, chat_id) IN
    IF feeding = None THEN Result(d, "no_feeding", <<>>) ELSE
    LET r1 == finish_feeding(d, feeding.id, t,
                             FailAt(fail, "finish_feeding")) IN
    IF r1.raised THEN Result(r1.db, "error", <<>>)
    ELSE Result(r1.db, "ok", <<"finish_feeding">>)

\* mutant: the feeding is closed (end_time set) instead of deleted
cancel_feeding_callback_keeprow(d, chat_id, has_message, fail) ==
    IF ~has_message THEN Result(d, "no_message", <<>>) ELSE
    LET feeding == get_active_feeding(d, chat_id) IN
    IF feeding = None THEN Result(d, "no_feeding", <<>>) ELSE
    LET r1 == Txn(d, << [sql |-> "UPDATE feedings SET end_time",
                         end_time |-> feeding.start_time,
                         id |-> feeding.id] >>,
                  FailAt(fail, "DELETE")) IN
    IF r1.raised THEN Result(r1.db, "error", <<>>)
    ELSE Result(r1.db, "ok", <<"DELETE">>)

\* with sqlite3.connect(...) as conn: DELETE; the context manager commits,
\* or rolls back when the statement raises
cancel_feeding_callback(d, chat_id, has_message, fail) ==
    IF ~has_message THEN Result(d, "no_message", <<>>) ELSE
    LET feeding == get_active_feeding(d, chat_id) IN
    IF feeding = None THEN Result(d, "no_feeding", <<>>) ELSE
    LET r1 == Txn(d, << [sql |-> "DELETE FROM feedings", id |-> feeding.id] >>,
                  FailAt(fail, "DELETE")) IN
    IF r1.raised THEN Result(r1.db, "error", <<>>)
    ELSE Result(r1.db, "ok", <<"DELETE">>)

----------------------------------------------------------------------------
(* The state machine *)

NoUpdate == [handler |-> "none", chat |-> 0, out |-> "", calls |-> <<>>]

\* MemoryStorage starts empty: no state, no data, for every (chat, user)
NoData == <<>>
FsmInit == [k \in Chats \X Users |-> [state |-> "None", data |-> NoData]]

\* the data of a child as the registration flow collects it
DefaultChildData ==
    [first_name |-> "Anna", last_name |-> "", gender |-> "F",
     birth_date |-> 0, gestation_weeks |-> 40, gestation_days |-> 0,
     birth_weight |-> 3500, birth_height |-> 52]

\* the database after the last registration step stored a child for the
\* chat: register_child, then add_measurement with the birth parameters
Registered(d, chat_id, child_data, t) ==
    LET r1 == register_child(d, chat_id, child_data, t, 0)
    IN  add_measurement(r1.db, NextId(d, "children"), child_data.birth_weight,
                        child_data.birth_height, t, 0).db

RECURSIVE RegisteredAll(_, _)
RegisteredAll(d, chats) ==
    IF chats = {} THEN d
    ELSE LET c == CHOOSE x \in chats : \A y \in chats : x <= y
         IN  RegisteredAll(Registered(d, c, DefaultChildData, 0), chats \ {c})

\* the rows ever inserted stay within the bounds
WithinBounds(d) ==
    /\ d.seq["sleep_tracker"] + d.seq["wakefulness_tracker"] <= MaxRows
    /\ d.seq["feedings"] <= MaxFeedRows
    /\ d.seq["children"] <= MaxChildren
    /\ d.seq["measurements"] <= MaxMeasurements
    /\ d.seq["diaper_tracker"] + d.seq["journal_notes"] <= MaxEvents
    /\ \A r \in d.feedings :
          /\ r.total_eaten_ml <= MaxEatenMl
          /\ r.pauses_count <= MaxPauses

\* One update handled: the handler's result becomes the state.  `last`
\* keeps the last update whose handler wrote to the database; an update
\* that only reads and replies leaves the state as it is.
Handle(handler, chat_id, r) ==
    /\ WithinBounds(r.db)
    /\ db' = r.db
    /\ last' = IF r.db = db THEN last
               ELSE [handler |-> handler, chat |-> chat_id, out |-> r.out,
                     calls |-> r.calls]
    /\ UNCHANGED <<fsm, now, tasks>>

Tick ==
    /\ now < MaxTicks * TickSeconds
    /\ now' = now + TickSeconds
    /\ UNCHANGED <<db, fsm, last, tasks>>

OnStartSleep(c) ==
    \E fail \in {"none", "end_wakefulness", "start_sleep"} :
        Handle("start_sleep_callback", c, start_sleep_callback(db, c, now, fail))

OnEndSleep(c) ==
    \E fail \in {"none", "end_sleep"} :
        Handle("end_sleep_callback", c, end_sleep_callback(db, c, now, fail))

OnStartWake(c) ==
    \E fail \in {"none", "end_sleep", "start_wakefulness"} :
        Handle("start_wake_callback", c, start_wake_callback(db, c, now, fail))

OnEndWake(c) ==
    \E fail \in {"none", "end_wakefulness"} :
        Handle("end_wake_callback", c, end_wake_callback(db, c, now, fail))

OnStartFeeding(c) ==
    \E m \in BOOLEAN, fail \in {"none", "start_feeding"} :
        Handle("start_feeding_callback", c,
               start_feeding_callback(db, c, now, m, fail))

\* the quick-add buttons the model presses
QuickButtons == {"add_5", "add_10"}

OnAddEatenQuick(c) ==
    \E data \in QuickButtons, fail \in {"none", "add_eaten_ml"} :
        Handle("add_eaten_quick_callback", c,
               add_eaten_quick_callback(db, c, data, fail))

OnPauseFeeding(c) ==
    \E m \in BOOLEAN, fail \in {"none", "pause_feeding"} :
        Handle("pause_feeding_callback", c,
               pause_feeding_callback(db, c, now, m, fail))

OnResumeFeeding(c) ==
    \E m \in BOOLEAN, fail \in {"none", "resume_feeding"} :
        Handle("resume_feeding_callback", c,
               resume_feeding_callback(db, c, now, m, fail))

OnFinishFeeding(c) ==
    \E m \in BOOLEAN, fail \in {"none", "finish_feeding"} :
        Handle("finish_feeding_callback", c,
               finish_feeding_callback(db, c, now, m, fail))

OnCancelFeeding(c) ==
    \E m \in BOOLEAN, fail \in {"none", "DELETE"} :
        Handle("cancel_feeding_callback", c,
               cancel_feeding_callback(db, c, m, fail))

----------------------------------------------------------------------------
(* Spec: the interval lifecycle of one chat.  The chat starts with or      *)
(* without a registered child; its sleep and wakefulness buttons are       *)
(* pressed in any order while the clock advances, and one feeding is       *)
(* started, finished or cancelled beside them (the feeding lifecycle       *)
(* itself is SpecFeed's).                                                  *)

TrackedChats == {1}

Init ==
    /\ \E S \in SUBSET TrackedChats : db = RegisteredAll(EmptyDb, S)
    /\ fsm = FsmInit
    /\ now = 0
    /\ last = NoUpdate
    /\ tasks = <<>>

Next ==
    \/ Tick
    \/ \E c \in TrackedChats : OnStartSleep(c)
    \/ \E c \in TrackedChats : OnEndSleep(c)
    \/ \E c \in TrackedChats : OnStartWake(c)
    \/ \E c \in TrackedChats : OnEndWake(c)
    \/ \E c \in TrackedChats : db.seq["feedings"] = 0 /\ OnStartFeeding(c)
    \/ \E c \in TrackedChats : OnFinishFeeding(c)
    \/ \E c \in TrackedChats : OnCancelFeeding(c)

Spec == Init /\ [][Next]_vars

----------------------------------------------------------------------------
(* SpecFeed: the feeding lifecycle of one chat with every feeding handler, *)
(* over several feedings; the clock stands still.                          *)

NextFeed ==
    \/ \E c \in TrackedChats : OnStartFeeding(c)
    \/ \E c \in TrackedChats : OnAddEatenQuick(c)
    \/ \E c \in TrackedChats : OnPauseFeeding(c)
    \/ \E c \in TrackedChats : OnResumeFeeding(c)
    \/ \E c \in TrackedChats : OnFinishFeeding(c)
    \/ \E c \in TrackedChats : OnCancelFeeding(c)

SpecFeed == Init /\ [][NextFeed]_vars

----------------------------------------------------------------------------
(* Open intervals *)

OpenFeedings(d, chat_id) ==
    {r \in d.feedings : r.chat_id = chat_id /\ r.end_time = NULL}
OpenFeedingsOf(d, child_id) ==
    {r \in d.feedings : r.child_id = child_id /\ r.end_time = NULL}
OpenSleeps(d, child_id) ==
    {r \in d.sleep_tracker : r.child_id = child_id /\ r.sleep_end = NULL}
OpenWakes(d, child_id) ==
    {r \in d.wakefulness_tracker : r.child_id = child_id /\ r.wake_end = NULL}
ChildIds(d) == {r.id : r \in d.children}

\* the step is an update that `handler` handled, wrote to the database and
\* ended with the reply `out`
Wrote(handler, out) ==
    /\ db' # db
    /\ last'.handler = handler
    /\ last'.out = out

----------------------------------------------------------------------------
\* the parts of C1
C1_OneOpen == \A c \in Chats : Cardinality(OpenFeedings(db, c)) <= 1

C1_InsertOnlyWhenNone ==
    \A c \in Chats :
        (\E r \in db'.feedings : r \notin db.feedings /\ r.chat_id = c
                                             /\ r.id > db.seq["feedings"])
        => /\ get_active_feeding(db, c) = None
           /\ last'.handler = "start_feeding_callback"

(* C1: after any sequence of feeding operations a chat has at most one     *)
(* feeding with end_time unset, and a step that inserts a feeding is a     *)
(* start_feeding_callback for a chat get_active_feeding found no open      *)
(* feeding for.                                                            *)
C1_AtMostOneOpenFeeding == [](C1_OneOpen) /\ [][C1_InsertOnlyWhenNone]_vars

\* a feeding was finished and the next one started: one open, one closed
C1_Witness ==
    \E c \in Chats :
        /\ Cardinality(OpenFeedings(db, c)) = 1
        /\ \E r \in db.feedings : r.chat_id = c /\ r.end_time # NULL
        /\ last.handler = "start_feeding_callback" /\ last.out = "ok"

----------------------------------------------------------------------------
(* C2: after any sequence of start_sleep, end_sleep, start_wake and        *)
(* end_wake presses every child has at most one sleep row with sleep_end   *)
(* unset and at most one wakefulness row with wake_end unset.              *)

C2_AtMostOneOpenSleepAndWake ==
    \A id \in ChildIds(db) :
        /\ Cardinality(OpenSleeps(db, id)) <= 1
        /\ Cardinality(OpenWakes(db, id)) <= 1

\* a second sleep was started after the first ended
C2_Witness ==
    \E id \in ChildIds(db) :
        /\ Cardinality(OpenSleeps(db, id)) = 1
        /\ \E r \in db.sleep_tracker : r.child_id = id /\ r.sleep_end # NULL
        /\ last.handler = "start_sleep_callback" /\ last.out = "ok"

----------------------------------------------------------------------------
(* C3: in every reachable state no child has an open sleep and an open     *)
(* wakefulness interval at the same time.                                  *)

C3_SleepWakeExclusive ==
    \A id \in ChildIds(db) : OpenSleeps(db, id) = {} \/ OpenWakes(db, id) = {}

\* a sleep is open that was started while a wakefulness was open
C3_Witness ==
    \E id \in ChildIds(db) :
        /\ OpenSleeps(db, id) # {}
        /\ last.handler = "start_sleep_callback"
        /\ last.calls = <<"end_wakefulness", "start_sleep">>

----------------------------------------------------------------------------
\* the parts of C4, for an update of chat c
C4_StartSleepStep(c) ==
    LET child == get_child(db, c)
        w == get_active_wakefulness(db, child.id)
    IN  (Wrote("start_sleep_callback", "ok") /\ last'.chat = c
         /\ child # None /\ w # None)
        => /\ last'.calls = <<"end_wakefulness", "start_sleep">>
           /\ \E r \in db'.wakefulness_tracker :
                 /\ r.id = w.id
                 /\ r.wake_end = now
                 /\ r.duration_minutes # NULL
           /\ OpenWakes(db', child.id) = {}
           /\ \E r \in db'.sleep_tracker :
                 /\ r.id > db.seq["sleep_tracker"]
                 /\ r.sleep_start = now
                 /\ OpenSleeps(db', child.id) = {r}

C4_StartWakeStep(c) ==
    LET child == get_child(db, c)
        s == get_active_sleep(db, child.id)
    IN  (Wrote("start_wake_callback", "ok") /\ last'.chat = c
         /\ child # None /\ s # None)
        => /\ last'.calls = <<"end_sleep", "start_wakefulness">>
           /\ \E r \in db'.sleep_tracker :
                 /\ r.id = s.id
                 /\ r.sleep_end = now
                 /\ r.duration_minutes # NULL
           /\ OpenSleeps(db', child.id) = {}
           /\ \E r \in db'.wakefulness_tracker :
                 /\ r.id > db.seq["wakefulness_tracker"]
                 /\ r.wake_start = now
                 /\ OpenWakes(db', child.id) = {r}

(* C4: an accepted start_sleep with a wakefulness open first sets that     *)
(* row's wake_end and duration_minutes and then inserts the sleep row;     *)
(* afterwards the new sleep is the child's only open interval of the two   *)
(* kinds.  Symmetrically for an accepted start_wake with a sleep open.     *)
C4_ForceCloseBeforeInsert ==
    [][\A c \in Chats : C4_StartSleepStep(c) /\ C4_StartWakeStep(c)]_vars

\* a start_wake closed the open sleep: that sleep ends where the open
\* wakefulness starts
C4_Witness ==
    /\ last.handler = "start_wake_callback"
    /\ last.calls = <<"end_sleep", "start_wakefulness">>
    /\ \E s \in db.sleep_tracker, w \in db.wakefulness_tracker :
          /\ s.child_id = w.child_id
          /\ s.sleep_end = w.wake_start
          /\ w.wake_end = NULL

----------------------------------------------------------------------------
\* what a step leaves alone
SleepWakeUnchanged ==
    /\ db'.sleep_tracker = db.sleep_tracker
    /\ db'.wakefulness_tracker = db.wakefulness_tracker
FeedingsUnchanged == db'.feedings = db.feedings
FeedingHandlers ==
    {"start_feeding_callback", "add_eaten_quick_callback",
     "pause_feeding_callback", "resume_feeding_callback",
     "finish_feeding_callback", "cancel_feeding_callback"}
SleepWakeHandlers ==
    {"start_sleep_callback", "end_sleep_callback",
     "start_wake_callback", "end_wake_callback"}

\* C5 as the specification states it: a child has at most one open record
\* among feeding, sleep and wakefulness
C5_Original ==
    \A id \in ChildIds(db) :
        Cardinality(OpenFeedingsOf(db, id)) + Cardinality(OpenSleeps(db, id))
            + Cardinality(OpenWakes(db, id)) <= 1

C5_Step ==
    db' # db =>
        /\ last'.handler \in FeedingHandlers => SleepWakeUnchanged
        /\ last'.handler \in SleepWakeHandlers => FeedingsUnchanged

(* C5: sleep and wakefulness exclude and interrupt each other per child;   *)
(* a feeding excludes only another feeding of its chat: no feeding         *)
(* operation changes a sleep or wakefulness row and no sleep or            *)
(* wakefulness operation changes a feeding row, so an open feeding         *)
(* coexists with an open sleep or wakefulness.                             *)
C5_SleepWakeOnlyExclusive ==
    /\ [](\A id \in ChildIds(db) :
             Cardinality(OpenSleeps(db, id)) + Cardinality(OpenWakes(db, id)) <= 1)
    /\ [](\A c \in Chats : Cardinality(OpenFeedings(db, c)) <= 1)
    /\ [][C5_Step]_vars

\* a sleep was started while a feeding was open, and both are open
C5_Witness ==
    \E id \in ChildIds(db) :
        /\ OpenFeedingsOf(db, id) # {}
        /\ OpenSleeps(db, id) # {}
        /\ last.handler = "start_sleep_callback"

----------------------------------------------------------------------------
\* a closed interval's duration is the whole minutes between its ends
Closed(start, end, duration) ==
    /\ end # NULL
    /\ duration # NULL
    /\ duration >= 0
    /\ 60 * duration <= end - start
    /\ end - start < 60 * (duration + 1)
StillOpen(end, duration) == end = NULL /\ duration = NULL

----------------------------------------------------------------------------
(* The registration flow: /register and the steps of ChildRegistration.    *)
(* A handler takes the stored database d, the FSM entry e of the update's  *)
(* (chat, user), the update's text and `sent`: whether the replies         *)
(* (message.answer) go through or raise; it returns the database, the      *)
(* FSM entry, the reply and the completed Database calls.                  *)

\* state.update_data(key=value) / data[key] = value
SetKey(data, key, value) ==
    [k \in (DOMAIN data) \cup {key} |-> IF k = key THEN value ELSE data[k]]

\* message.text of a message that carries no text (a photo, a sticker):
\* None, which int() and float() refuse with TypeError
NoText == "<no text>"

\* int(message.text) of the texts the model sends; any other text raises
\* ValueError
IntText ==
    ("-1" :> -1) @@ ("0" :> 0) @@ ("1" :> 1) @@ ("2" :> 2) @@ ("3" :> 3)
    @@ ("6" :> 6) @@ ("7" :> 7) @@ ("19" :> 19) @@ ("20" :> 20)
    @@ ("29" :> 29) @@ ("30" :> 30) @@ ("31" :> 31) @@ ("40" :> 40)
    @@ ("42" :> 42) @@ ("43" :> 43) @@ ("52" :> 52) @@ ("70" :> 70)
    @@ ("71" :> 71) @@ ("120" :> 120) @@ ("121" :> 121) @@ ("499" :> 499)
    @@ ("500" :> 500) @@ ("501" :> 501) @@ ("3500" :> 3500)
    @@ ("6000" :> 6000) @@ ("6001" :> 6001) @@ ("20000" :> 20000)
    @@ ("20001" :> 20001)
IsNumber(text) == text \in DOMAIN IntText

\* float(message.text): the whole numbers above and "nan", which float()
\* accepts; any other text raises ValueError
NaN == -2
FloatText == IntText @@ ("nan" :> NaN)
IsFloat(text) == text \in DOMAIN FloatText

\* lo <= x <= hi of Python: every comparison with nan is False
Between(lo, x, hi) == x # NaN /\ lo <= x /\ x <= hi

\* datetime.strptime(message.text, "%d.%m.%Y") as a day number; any other
\* text raises ValueError
DateText == [x \in {"01.01.1970", "02.01.1970"} |->
               IF x = "01.01.1970" THEN 0 ELSE 1]
IsDate(text) == text \in DOMAIN DateText

FsmResult(d, e, out, calls) == [db |-> d, e |-> e, out |-> out, calls |-> calls]

\* int(None) / float(None): TypeError, which `except ValueError` lets
\* through; the handler ends without a reply
TypeError(d, e) == FsmResult(d, e, "TypeError", <<>>)

\* await message.answer(...) then await state.set_state(next): a reply
\* that raises leaves the state as it was
Advance(d, e, data, next, sent) ==
    IF sent THEN FsmResult(d, [state |-> next, data |-> data], "ok", <<>>)
    ELSE FsmResult(d, [state |-> e.state, data |-> data], "error", <<>>)

register_child_cmd(d, e, chat_id, sent) ==
    IF get_child(d, chat_id) # None
    THEN FsmResult(d, e, "already_registered", <<>>)
    ELSE Advance(d, e, e.data, "waiting_for_first_name", sent)

process_first_name(d, e, text, sent) ==
    Advance(d, e, SetKey(e.data, "first_name", text),
            "waiting_for_last_name", sent)

process_last_name(d, e, text, sent) ==
    LET last_name == IF text # "-" THEN text ELSE ""
    IN  Advance(d, e, SetKey(e.data, "last_name", last_name),
                "waiting_for_gender", sent)

\* "M" and "F" stand for the Cyrillic letters the code stores
process_gender(d, e, data, sent) ==
    LET gender == IF data = "gender_m" THEN "M" ELSE "F"
    IN  Advance(d, e, SetKey(e.data, "gender", gender),
                "waiting_for_birth_date", sent)

process_birth_date(d, e, text, sent) ==
    IF ~IsDate(text) THEN FsmResult(d, e, "bad_format", <<>>)
    ELSE Advance(d, e, SetKey(e.data, "birth_date", DateText[text]),
                 "waiting_for_gestation_weeks", sent)

process_gestation_weeks(d, e, text, sent) ==
    IF text = NoText THEN TypeError(d, e) ELSE
    IF ~IsNumber(text) THEN FsmResult(d, e, "bad_format", <<>>)
    ELSE LET weeks == IntText[text] IN
         IF 20 <= weeks /\ weeks <= 42
         THEN Advance(d, e, SetKey(e.data, "gestation_weeks", weeks),
                      "waiting_for_gestation_days", sent)
         ELSE FsmResult(d, e, "out_of_range", <<>>)

process_gestation_days(d, e, text, sent) ==
    IF text = NoText THEN TypeError(d, e) ELSE
    IF ~IsNumber(text) THEN FsmResult(d, e, "bad_format", <<>>)
    ELSE LET days == IntText[text] IN
         IF 0 <= days /\ days <= 6
         THEN Advance(d, e, SetKey(e.data, "gestation_days", days),
                      "waiting_for_birth_weight", sent)
         ELSE FsmResult(d, e, "out_of_range", <<>>)

process_birth_weight(d, e, text, sent) ==
    IF text = NoText THEN TypeError(d, e) ELSE
    IF ~IsFloat(text) THEN FsmResult(d, e, "bad_format", <<>>)
    ELSE LET weight == FloatText[text] IN
         IF Between(500, weight, 6000)
         THEN Advance(d, e, SetKey(e.data, "birth_weight", weight),
                      "waiting_for_birth_height", sent)
         ELSE FsmResult(d, e, "out_of_range", <<>>)

\* state.clear()
Cleared == [state |-> "None", data |-> NoData]

\* mutant: the limits of process_height (30..120) copied into the birth
\* height step
process_birth_height_widerange(d, e, chat_id, text, t, sent, fail) ==
    IF text = NoText THEN TypeError(d, e) ELSE
    IF ~IsNumber(text) THEN FsmResult(d, e, "bad_format", <<>>)
    ELSE LET height == IntText[text] IN
    IF ~(30 <= height /\ height <= 120)
    THEN FsmResult(d, e, "out_of_range", <<>>) ELSE
    LET data == SetKey(e.data, "birth_height", height)
        child_id == NextId(d, "children")
        r1 == register_child(d, chat_id, data, t, FailAt(fail, "register_child"))
    IN
    IF r1.raised THEN FsmResult(r1.db, e, "error", <<>>) ELSE
    IF ~sent THEN FsmResult(r1.db, e, "error", <<"register_child">>) ELSE
    LET r2 == add_measurement(r1.db, child_id, data.birth_weight,
                              data.birth_height, t,
                              FailAt(fail, "add_measurement"))
    IN
    IF r2.raised THEN FsmResult(r2.db, Cleared, "error", <<"register_child">>)
    ELSE FsmResult(r2.db, Cleared, "ok",
                   <<"register_child", "add_measurement">>)

\* the last step: register_child, the two replies, state.clear(), then
\* add_measurement.  get_data() returns a copy, so birth_height is not
\* written to the stored FSM data.
process_birth_height(d, e, chat_id, text, t, sent, fail) ==
    IF text = NoText THEN TypeError(d, e) ELSE
    IF ~IsNumber(text) THEN FsmResult(d, e, "bad_format", <<>>)
    ELSE LET height == IntText[text] IN
    IF ~(30 <= height /\ height <= 70)
    THEN FsmResult(d, e, "out_of_range", <<>>) ELSE
    LET data == SetKey(e.data, "birth_height", height)
        child_id == NextId(d, "children")
        r1 == register_child(d, chat_id, data, t, FailAt(fail, "register_child"))
    IN
    IF r1.raised THEN FsmResult(r1.db, e, "error", <<>>) ELSE
    IF ~sent THEN FsmResult(r1.db, e, "error", <<"register_child">>) ELSE
    LET r2 == add_measurement(r1.db, child_id, data.birth_weight,
                              data.birth_height, t,
                              FailAt(fail, "add_measurement"))
    IN
    IF r2.raised THEN FsmResult(r2.db, Cleared, "error", <<"register_child">>)
    ELSE FsmResult(r2.db, Cleared, "ok",
                   <<"register_child", "add_measurement">>)

----------------------------------------------------------------------------
(* Diapers, journal notes and measurements *)

\* the values stand for the Cyrillic words the code stores
diaper_type_map ==
    [x \in {"diaper_urine", "diaper_poop", "diaper_both"} |->
       CASE x = "diaper_urine" -> "urine" [] x = "diaper_poop" -> "poop"
         [] x = "diaper_both" -> "both"]

\* mutant: no child lookup guard, the event is stored without a child
process_diaper_callback_nocheck(d, chat_id, data, t, fail) ==
    LET child == get_child(d, chat_id)
        child_id == IF child = None THEN NULL ELSE child.id
        r1 == add_diaper(d, child_id, diaper_type_map[data], t,
                         FailAt(fail, "add_diaper")) IN
    IF r1.raised THEN Result(r1.db, "error", <<>>) ELSE
    LET r2 == update_daily_checklist(r1.db, child_id, DateOf(t),
                                     "diapers_changed", 1,
                                     FailAt(fail, "update_daily_checklist")) IN
    IF r2.raised THEN Result(r2.db, "error", <<"add_diaper">>)
    ELSE Result(r2.db, "ok", <<"add_diaper", "update_daily_checklist">>)

process_diaper_callback(d, chat_id, data, t, fail) ==
    LET child == get_child(d, chat_id) IN
    IF child = None THEN Result(d, "no_child", <<>>) ELSE
    LET r1 == add_diaper(d, child.id, diaper_type_map[data], t,
                         FailAt(fail, "add_diaper")) IN
    IF r1.raised THEN Result(r1.db, "error", <<>>) ELSE
    LET r2 == update_daily_checklist(r1.db, child.id, DateOf(t),
                                     "diapers_changed", 1,
                                     FailAt(fail, "update_daily_checklist")) IN
    IF r2.raised THEN Result(r2.db, "error", <<"add_diaper">>)
    ELSE Result(r2.db, "ok", <<"add_diaper", "update_daily_checklist">>)

note_menu_callback(d, e, chat_id, sent) ==
    IF get_child(d, chat_id) = None THEN FsmResult(d, e, "no_child", <<>>)
    ELSE Advance(d, e, e.data, "waiting_for_note", sent)

\* the replies come before state.clear(): a reply that raises leaves the
\* state as it was
save_note(d, e, chat_id, text, t, sent, fail) ==
    LET child == get_child(d, chat_id) IN
    IF child = None
    THEN FsmResult(d, IF sent THEN Cleared ELSE e, "no_child", <<>>) ELSE
    LET r1 == add_journal_note(d, child.id, text, t,
                               FailAt(fail, "add_journal_note")) IN
    IF r1.raised THEN FsmResult(r1.db, e, "error", <<>>) ELSE
    IF ~sent THEN FsmResult(r1.db, e, "error", <<"add_journal_note">>)
    ELSE FsmResult(r1.db, Cleared, "ok", <<"add_journal_note">>)

params_cmd(d, e, chat_id, sent) ==
    IF get_child(d, chat_id) = None THEN FsmResult(d, e, "no_child", <<>>)
    ELSE Advance(d, e, e.data, "waiting_for_weight", sent)

process_weight(d, e, text, sent) ==
    IF text = NoText THEN TypeError(d, e) ELSE
    IF ~IsFloat(text) THEN FsmResult(d, e, "bad_format", <<>>)
    ELSE LET weight == FloatText[text] IN
         IF Between(500, weight, 20000)
         THEN Advance(d, e, SetKey(e.data, "weight", weight),
                      "waiting_for_height", sent)
         ELSE FsmResult(d, e, "out_of_range", <<>>)

process_height(d, e, chat_id, text, t, sent, fail) ==
    IF text = NoText THEN TypeError(d, e) ELSE
    IF ~IsNumber(text) THEN FsmResult(d, e, "bad_format", <<>>)
    ELSE LET height == IntText[text] IN
    IF ~(30 <= height /\ height <= 120)
    THEN FsmResult(d, e, "out_of_range", <<>>) ELSE
    LET child == get_child(d, chat_id) IN
    IF child = None
    THEN FsmResult(d, IF sent THEN Cleared ELSE e, "no_child", <<>>) ELSE
    LET r1 == add_measurement(d, child.id, e.data.weight, height, t,
                              FailAt(fail, "add_measurement")) IN
    IF r1.raised THEN FsmResult(r1.db, e, "error", <<>>) ELSE
    IF ~sent THEN FsmResult(r1.db, e, "error", <<"add_measurement">>)
    ELSE FsmResult(r1.db, Cleared, "ok", <<"add_measurement">>)

----------------------------------------------------------------------------
(* The custom feeding amount and the medication dose prompts *)

\* callback.message.edit_text(...) comes before state.set_state(...)
add_custom_callback(d, e, chat_id, sent) ==
    IF get_active_feeding(d, chat_id) = None
    THEN FsmResult(d, e, "no_feeding", <<>>)
    ELSE Advance(d, e, e.data, "waiting_for_custom_amount", sent)

\* the feeding is looked up before the text is parsed; the replies come
\* before state.clear()
process_custom_amount(d, e, chat_id, text, sent, fail) ==
    LET feeding == get_active_feeding(d, chat_id) IN
    IF feeding = None
    THEN FsmResult(d, IF sent THEN Cleared ELSE e, "no_feeding", <<>>) ELSE
    IF text = NoText THEN TypeError(d, e) ELSE
    IF ~IsNumber(text) THEN FsmResult(d, e, "bad_format", <<>>) ELSE
    LET eaten_ml == IntText[text] IN
    IF eaten_ml <= 0 THEN FsmResult(d, e, "out_of_range", <<>>) ELSE
    IF eaten_ml > 500 THEN FsmResult(d, e, "out_of_range", <<>>) ELSE
    LET r1 == add_eaten_ml(d, feeding.id, eaten_ml,
                           FailAt(fail, "add_eaten_ml")) IN
    IF r1.raised THEN FsmResult(r1.db, e, "error", <<>>) ELSE
    IF get_child(r1.db, chat_id) = None
    THEN FsmResult(r1.db, IF sent THEN Cleared ELSE e, "no_child",
                   <<"add_eaten_ml">>) ELSE
    IF ~sent THEN FsmResult(r1.db, e, "error", <<"add_eaten_ml">>)
    ELSE FsmResult(r1.db, Cleared, "ok", <<"add_eaten_ml">>)

\* the values stand for the Cyrillic names the code stores
medication_map ==
    [x \in {"med_paracetamol", "med_ibuprofen"} |->
       IF x = "med_paracetamol" THEN "Paracetamol" ELSE "Ibuprofen"]

\* state.update_data(medication=...) comes before the edit_text that may
\* raise
medication_calc_callback(d, e, data, sent) ==
    Advance(d, e, SetKey(e.data, "medication", medication_map[data]),
            "waiting_for_weight_for_med", sent)

\* the dose is only rendered; nothing is stored
process_medication_weight(d, e, text, sent) ==
    IF text = NoText THEN TypeError(d, e) ELSE
    IF ~IsFloat(text) THEN FsmResult(d, e, "bad_format", <<>>)
    ELSE LET weight_kg == FloatText[text] IN
         IF Between(2, weight_kg, 30)
         THEN IF sent THEN FsmResult(d, Cleared, "ok", <<>>)
              ELSE FsmResult(d, e, "error", <<>>)
         ELSE FsmResult(d, e, "out_of_range", <<>>)

----------------------------------------------------------------------------
(* Dispatch of a message: aiogram calls the first registered handler whose *)
(* filter passes.  In registration order: save_note,                      *)
(* process_medication_weight and process_custom_amount (their states),     *)
(* /start, /menu, /help, /register, the ChildRegistration states,          *)
(* /child_info, /params, the UpdateParams states.  A message no filter     *)
(* passes is not handled.                                                  *)

\* start_cmd, menu_cmd and help_cmd reply and store nothing
start_cmd(d, e, chat_id) == FsmResult(d, e, "ok", <<>>)
menu_cmd(d, e) == FsmResult(d, e, "ok", <<>>)
help_cmd(d, e) == FsmResult(d, e, "ok", <<>>)

child_info_cmd(d, e, chat_id) ==
    IF get_child(d, chat_id) = None THEN FsmResult(d, e, "no_child", <<>>)
    ELSE FsmResult(d, e, "ok", <<>>)

message_handler(e, text) ==
    CASE e.state = "waiting_for_note" -> "save_note"
      [] e.state = "waiting_for_weight_for_med" -> "process_medication_weight"
      [] e.state = "waiting_for_custom_amount" -> "process_custom_amount"
      [] text = "/start" -> "start_cmd"
      [] text = "/menu" -> "menu_cmd"
      [] text = "/help" -> "help_cmd"
      [] OTHER ->
    IF text = "/register" THEN "register_child_cmd"
    ELSE CASE e.state = "waiting_for_first_name" -> "process_first_name"
           [] e.state = "waiting_for_last_name" -> "process_last_name"
           [] e.state = "waiting_for_birth_date" -> "process_birth_date"
           [] e.state = "waiting_for_gestation_weeks" -> "process_gestation_weeks"
           [] e.state = "waiting_for_gestation_days" -> "process_gestation_days"
           [] e.state = "waiting_for_birth_weight" -> "process_birth_weight"
           [] e.state = "waiting_for_birth_height" -> "process_birth_height"
           [] text = "/child_info" -> "child_info_cmd"
           [] OTHER ->
    IF text = "/params" THEN "params_cmd"
    ELSE CASE e.state = "waiting_for_weight" -> "process_weight"
           [] e.state = "waiting_for_height" -> "process_height"
           [] OTHER -> "unhandled"

on_message(d, e, chat_id, text, t, sent, fail) ==
    LET h == message_handler(e, text) IN
    CASE h = "save_note" -> save_note(d, e, chat_id, text, t, sent, fail)
      [] h = "process_medication_weight" ->
             process_medication_weight(d, e, text, sent)
      [] h = "process_custom_amount" ->
             process_custom_amount(d, e, chat_id, text, sent, fail)
      [] h = "start_cmd" -> start_cmd(d, e, chat_id)
      [] h = "menu_cmd" -> menu_cmd(d, e)
      [] h = "help_cmd" -> help_cmd(d, e)
      [] h = "child_info_cmd" -> child_info_cmd(d, e, chat_id)
      [] h = "register_child_cmd" -> register_child_cmd(d, e, chat_id, sent)
      [] h = "process_first_name" -> process_first_name(d, e, text, sent)
      [] h = "process_last_name" -> process_last_name(d, e, text, sent)
      [] h = "process_birth_date" -> process_birth_date(d, e, text, sent)
      [] h = "process_gestation_weeks" -> process_gestation_weeks(d, e, text, sent)
      [] h = "process_gestation_days" -> process_gestation_days(d, e, text, sent)
      [] h = "process_birth_weight" -> process_birth_weight(d, e, text, sent)
      [] h = "process_birth_height" ->
             process_birth_height(d, e, chat_id, text, t, sent, fail)
      [] h = "params_cmd" -> params_cmd(d, e, chat_id, sent)
      [] h = "process_weight" -> process_weight(d, e, text, sent)
      [] h = "process_height" ->
             process_height(d, e, chat_id, text, t, sent, fail)
      [] OTHER -> FsmResult(d, e, "unhandled", <<>>)

----------------------------------------------------------------------------
(* SpecReg: registration.  Two users of chat 1 send /register, texts and   *)
(* gender buttons in any order; replies and Database calls may raise.      *)

RegKeys == {<<1, 1>>, <<1, 2>>}

\* the texts the model sends in a state of the flow
Texts(state) ==
    CASE state = "waiting_for_first_name" -> {"Anna"}
      [] state = "waiting_for_last_name" -> {"-", "Lee"}
      [] state = "waiting_for_birth_date" -> {"01.01.1970", "1 Jan"}
      [] state = "waiting_for_gestation_weeks" -> {"40", "19", "forty"}
      [] state = "waiting_for_gestation_days" -> {"3", "7", "three"}
      [] state = "waiting_for_birth_weight" -> {"3500", "52", "heavy"}
      [] state = "waiting_for_birth_height" -> {"52", "7", "tall"}
      [] state = "waiting_for_note" -> {"slept well", "/params"}
      [] state = "waiting_for_weight" -> {"3500", "52", "heavy"}
      [] state = "waiting_for_height" -> {"52", "3500", "tall"}
      [] state = "waiting_for_custom_amount" -> {"1", "0", "some"}
      [] state = "waiting_for_weight_for_med" -> {"3", "40", "light"}
      [] OTHER -> {"hello"}

\* One update handled by a handler that uses the FSM of (chat, user)
HandleFsm(handler, chat_id, user_id, r) ==
    /\ WithinBounds(r.db)
    /\ db' = r.db
    /\ fsm' = [fsm EXCEPT ![<<chat_id, user_id>>] = r.e]
    /\ last' = IF r.db = db THEN last
               ELSE [handler |-> handler, chat |-> chat_id, out |-> r.out,
                     calls |-> r.calls]
    /\ UNCHANGED <<now, tasks>>

OnRegisterCmd(c, u) ==
    \E sent \in BOOLEAN :
        HandleFsm("register_child_cmd", c, u,
                  on_message(db, fsm[<<c, u>>], c, "/register", now, sent, "none"))

\* a text sent while a flow waits for one
OnText(c, u) ==
    /\ fsm[<<c, u>>].state \notin {"None", "waiting_for_gender"}
    /\ \E text \in Texts(fsm[<<c, u>>].state), sent \in BOOLEAN,
          fail \in {"none", "register_child", "add_measurement",
                    "add_journal_note"} :
          HandleFsm(message_handler(fsm[<<c, u>>], text), c, u,
                    on_message(db, fsm[<<c, u>>], c, text, now, sent, fail))

\* a gender button pressed while the flow waits for it
OnGender(c, u) ==
    /\ fsm[<<c, u>>].state = "waiting_for_gender"
    /\ \E data \in {"gender_m", "gender_f"}, sent \in BOOLEAN :
          HandleFsm("process_gender", c, u,
                    process_gender(db, fsm[<<c, u>>], data, sent))

InitReg ==
    /\ db = EmptyDb
    /\ fsm = FsmInit
    /\ now = 0
    /\ last = NoUpdate
    /\ tasks = <<>>

NextReg ==
    \/ \E k \in RegKeys : OnRegisterCmd(k[1], k[2])
    \/ \E k \in RegKeys : OnText(k[1], k[2])
    \/ \E k \in RegKeys : OnGender(k[1], k[2])

SpecReg == InitReg /\ [][NextReg]_vars

\* C6 as the specification states it: at most one child per chat_id
C6_OneChildPerChat ==
    \A c \in Chats : Cardinality({r \in db.children : r.chat_id = c}) <= 1

----------------------------------------------------------------------------
(* SpecAsync: updates handled as interleaved tasks.  Polling starts one    *)
(* task per update; a task runs until it awaits a request to Telegram      *)
(* (callback.answer, edit_text) and another task may run meanwhile.  A     *)
(* task is [kind, chat, pc, out]: pc is the await it is suspended at,      *)
(* "start" before it has run.                                              *)

MaxTasks == 2          \* tasks in flight at once

TaskKinds == {"start_sleep", "start_wake", "start_feeding", "end_sleep"}

\* where a handler is suspended after its synchronous part: at the alert
\* of an early return, at edit_text after the database was written, or
\* nowhere when a Database call raised
AfterSync(r) ==
    [db |-> r.db, out |-> r.out, calls |-> r.calls,
     pc |-> CASE r.out = "ok" -> "edit_text"
              [] r.out = "error" -> "done"
              [] OTHER -> "alert"]

\* the awaits after the synchronous part: edit_text, then callback.answer
AfterAwait(d, task) ==
    [db |-> d, out |-> task.out, calls |-> <<>>,
     pc |-> IF task.pc = "edit_text" THEN "answer" ELSE "done"]

\* mutant: an await between the check for an open sleep and the insert
start_sleep_task_suspended(d, task, t, fail) ==
    CASE task.pc = "start" ->
           LET child == get_child(d, task.chat) IN
           IF child # None /\ get_active_sleep(d, child.id) = None
           THEN [db |-> d, out |-> "", calls |-> <<>>, pc |-> "checked"]
           ELSE AfterSync(start_sleep_callback(d, task.chat, t, fail))
      [] task.pc = "checked" ->
           AfterSync(start_sleep_callback_nocheck(d, task.chat, t, fail))
      [] OTHER -> AfterAwait(d, task)

\* one run of a start_sleep_callback task, from where it is suspended to
\* its next await
start_sleep_task(d, task, t, fail) ==
    IF task.pc = "start"
    THEN AfterSync(start_sleep_callback(d, task.chat, t, fail))
    ELSE AfterAwait(d, task)

start_wake_task(d, task, t, fail) ==
    IF task.pc = "start"
    THEN AfterSync(start_wake_callback(d, task.chat, t, fail))
    ELSE AfterAwait(d, task)

end_sleep_task(d, task, t, fail) ==
    IF task.pc = "start"
    THEN AfterSync(end_sleep_callback(d, task.chat, t, fail))
    ELSE AfterAwait(d, task)

\* callback.message is set
start_feeding_task(d, task, t, fail) ==
    IF task.pc = "start"
    THEN AfterSync(start_feeding_callback(d, task.chat, t, TRUE, fail))
    ELSE AfterAwait(d, task)

task_step(d, task, t, fail) ==
    CASE task.kind = "start_sleep" -> start_sleep_task(d, task, t, fail)
      [] task.kind = "start_wake" -> start_wake_task(d, task, t, fail)
      [] task.kind = "end_sleep" -> end_sleep_task(d, task, t, fail)
      [] task.kind = "start_feeding" -> start_feeding_task(d, task, t, fail)

RemoveAt(s, i) == SubSeq(s, 1, i - 1) \o SubSeq(s, i + 1, Len(s))

\* an update arrives and polling creates its task
Spawn(c, kind) ==
    /\ Len(tasks) < MaxTasks
    /\ tasks' = Append(tasks, [kind |-> kind, chat |-> c, pc |-> "start",
                               out |-> ""])
    /\ UNCHANGED <<db, fsm, now, last>>

\* the event loop resumes task i, which runs to its next await or its end
RunTask(i) ==
    \E fail \in {"none", "start_sleep", "start_wakefulness", "start_feeding"} :
        LET task == tasks[i]
            r == task_step(db, task, now, fail)
        IN  /\ WithinBounds(r.db)
            /\ db' = r.db
            /\ tasks' = IF r.pc = "done" THEN RemoveAt(tasks, i)
                        ELSE [tasks EXCEPT ![i].pc = r.pc, ![i].out = r.out]
            /\ last' = IF r.db = db THEN last
                       ELSE [handler |-> task.kind, chat |-> task.chat,
                             out |-> r.out, calls |-> r.calls]
            /\ UNCHANGED <<fsm, now>>

NextAsync ==
    \/ \E c \in TrackedChats, kind \in TaskKinds : Spawn(c, kind)
    \/ \E i \in 1..MaxTasks : i <= Len(tasks) /\ RunTask(i)

SpecAsync == Init /\ [][NextAsync]_vars

\* the parts of C7
C7_OneOpenOfEachKind ==
    /\ \A id \in ChildIds(db) : /\ Cardinality(OpenSleeps(db, id)) <= 1
                                /\ Cardinality(OpenWakes(db, id)) <= 1
    /\ \A c \in Chats : Cardinality(OpenFeedings(db, c)) <= 1

\* a row is inserted only in a step that found no open row of its kind
C7_CheckedWhereInserted ==
    /\ \A r \in db'.sleep_tracker :
          r.id > db.seq["sleep_tracker"] => OpenSleeps(db, r.child_id) = {}
    /\ \A r \in db'.wakefulness_tracker :
          r.id > db.seq["wakefulness_tracker"] => OpenWakes(db, r.child_id) = {}
    /\ \A r \in db'.feedings :
          r.id > db.seq["feedings"] => OpenFeedings(db, r.chat_id) = {}

(* C7: with the start requests of a chat handled as interleaved tasks that *)
(* switch only at their awaits, a start handler's check for an open        *)
(* interval and its insert run in one step with no await between them, and *)
(* no interleaving leaves two open intervals of one kind.                  *)
C7_NoAwaitBetweenCheckAndInsert ==
    [](C7_OneOpenOfEachKind) /\ [][C7_CheckedWhereInserted]_vars

\* two start_sleep tasks of one chat are in flight, both past their
\* synchronous part: one was accepted, the other found the sleep open
C7_Witness ==
    \E i, j \in 1..MaxTasks :
        /\ i <= Len(tasks) /\ j <= Len(tasks) /\ i # j
        /\ tasks[i].kind = "start_sleep" /\ tasks[j].kind = "start_sleep"
        /\ tasks[i].chat = tasks[j].chat
        /\ tasks[i].pc = "edit_text"
        /\ tasks[j].pc = "alert" /\ tasks[j].out = "already_active"
        /\ \E id \in ChildIds(db) : Cardinality(OpenSleeps(db, id)) = 1

----------------------------------------------------------------------------
(* SpecIso: two chats side by side.  Chat 2 is in the middle of            *)
(* everything: it has a child, an open feeding, an open sleep, a diaper    *)
(* and a note, and its user is half way through the measurement flow.      *)
(* Chat 1, with or without a child, then presses the interval, feeding and *)
(* diaper buttons and runs the note and measurement flows.                 *)

\* the user of both chats
IsoUser == CHOOSE u \in Users : \A x \in Users : u <= x

DiaperButtons == {"diaper_urine", "diaper_both"}

OnDiaper(c) ==
    \E data \in DiaperButtons,
       fail \in {"none", "add_diaper", "update_daily_checklist"} :
        Handle("process_diaper_callback", c,
               process_diaper_callback(db, c, data, now, fail))

OnNoteMenu(c, u) ==
    \E sent \in BOOLEAN :
        HandleFsm("note_menu_callback", c, u,
                  note_menu_callback(db, fsm[<<c, u>>], c, sent))

OnParamsCmd(c, u) ==
    \E sent \in BOOLEAN :
        HandleFsm(message_handler(fsm[<<c, u>>], "/params"), c, u,
                  on_message(db, fsm[<<c, u>>], c, "/params", now, sent, "none"))

\* what the updates of chat 2 left behind
BusyChat == CHOOSE c \in Chats : \A x \in Chats : c >= x
BusyDb(d) ==
    LET d1 == start_feeding_callback(d, BusyChat, 0, TRUE, "none").db
        d2 == start_sleep_callback(d1, BusyChat, 0, "none").db
        d3 == process_diaper_callback(d2, BusyChat, "diaper_both", 0, "none").db
        e1 == note_menu_callback(d3, Cleared, BusyChat, TRUE).e
    IN  save_note(d3, e1, BusyChat, "slept well", 0, TRUE, "none").db
BusyFsm(d) ==
    LET e1 == params_cmd(d, Cleared, BusyChat, TRUE).e
    IN  process_weight(d, e1, "3500", TRUE).e

InitIso ==
    /\ \E S \in {{BusyChat}, Chats} : db = BusyDb(RegisteredAll(EmptyDb, S))
    /\ fsm = [FsmInit EXCEPT ![<<BusyChat, IsoUser>>] = BusyFsm(db)]
    /\ now = 0
    /\ last = NoUpdate
    /\ tasks = <<>>

\* the rows inserted since the registrations
IsoRows(d) ==
    d.seq["sleep_tracker"] + d.seq["wakefulness_tracker"] + d.seq["feedings"]
    + d.seq["diaper_tracker"] + d.seq["journal_notes"]
    + d.seq["measurements"] - d.seq["children"]

\* an update handled within the budget of rows
InBudget(A) == A /\ IsoRows(db') <= MaxIsoRows

NextIso ==
    \/ \E c \in Chats \ {BusyChat} : InBudget(OnStartSleep(c))
    \/ \E c \in Chats \ {BusyChat} : InBudget(OnEndSleep(c))
    \/ \E c \in Chats \ {BusyChat} : InBudget(OnStartWake(c))
    \/ \E c \in Chats \ {BusyChat} : InBudget(OnEndWake(c))
    \/ \E c \in Chats \ {BusyChat} : InBudget(OnStartFeeding(c))
    \/ \E c \in Chats \ {BusyChat} : InBudget(OnAddEatenQuick(c))
    \/ \E c \in Chats \ {BusyChat} : InBudget(OnPauseFeeding(c))
    \/ \E c \in Chats \ {BusyChat} : InBudget(OnResumeFeeding(c))
    \/ \E c \in Chats \ {BusyChat} : InBudget(OnFinishFeeding(c))
    \/ \E c \in Chats \ {BusyChat} : InBudget(OnCancelFeeding(c))
    \/ \E c \in Chats \ {BusyChat} : InBudget(OnDiaper(c))
    \/ \E c \in Chats \ {BusyChat} : InBudget(OnNoteMenu(c, IsoUser))
    \/ \E c \in Chats \ {BusyChat} : InBudget(OnParamsCmd(c, IsoUser))
    \/ \E c \in Chats \ {BusyChat} : InBudget(OnText(c, IsoUser))

SpecIso == InitIso /\ [][NextIso]_vars

\* the records of a chat: its children and what hangs on them
ChildIdsOf(d, c) == {r.id : r \in {x \in d.children : x.chat_id = c}}
RecordsOf(d, c) ==
    LET ids == ChildIdsOf(d, c) IN
    [children |-> {r \in d.children : r.chat_id = c},
     reminders |-> {r \in d.reminders : r.chat_id = c},
     measurements |-> {r \in d.measurements : r.child_id \in ids},
     feedings |-> {r \in d.feedings : r.chat_id = c},
     sleep_tracker |-> {r \in d.sleep_tracker : r.child_id \in ids},
     wakefulness_tracker |-> {r \in d.wakefulness_tracker : r.child_id \in ids},
     diaper_tracker |-> {r \in d.diaper_tracker : r.child_id \in ids},
     journal_notes |-> {r \in d.journal_notes : r.child_id \in ids},
     daily_checklists |-> {r \in d.daily_checklists : r.child_id \in ids}]
FsmOf(f, c) == [u \in Users |-> f[<<c, u>>]]

\* the database with only the records of chat c; the AUTOINCREMENT
\* counters stay
Only(d, c) ==
    LET own == RecordsOf(d, c) IN
    [children |-> own.children, reminders |-> own.reminders,
     measurements |-> own.measurements, feedings |-> own.feedings,
     sleep_tracker |-> own.sleep_tracker,
     wakefulness_tracker |-> own.wakefulness_tracker,
     diaper_tracker |-> own.diaper_tracker,
     journal_notes |-> own.journal_notes,
     daily_checklists |-> own.daily_checklists, seq |-> d.seq]

\* every handler of the model run for chat c on database d: the database
\* it leaves and its reply, by handler and input
Run(h, input, r) == [h |-> h, input |-> input, db |-> r.db, out |-> r.out]
ButtonRuns(d, c, t) ==
    {Run("start_sleep", "", start_sleep_callback(d, c, t, "none")),
     Run("end_sleep", "", end_sleep_callback(d, c, t, "none")),
     Run("start_wake", "", start_wake_callback(d, c, t, "none")),
     Run("end_wake", "", end_wake_callback(d, c, t, "none")),
     Run("start_feeding", "", start_feeding_callback(d, c, t, TRUE, "none")),
     Run("pause_feeding", "", pause_feeding_callback(d, c, t, TRUE, "none")),
     Run("resume_feeding", "", resume_feeding_callback(d, c, t, TRUE, "none")),
     Run("finish_feeding", "", finish_feeding_callback(d, c, t, TRUE, "none")),
     Run("cancel_feeding", "", cancel_feeding_callback(d, c, TRUE, "none"))}
    \cup {Run("add_eaten", b, add_eaten_quick_callback(d, c, b, "none"))
            : b \in QuickButtons}
    \cup {Run("diaper", b, process_diaper_callback(d, c, b, t, "none"))
            : b \in DiaperButtons}
MessageRuns(d, e, c, t) ==
    {Run("note_menu", "", note_menu_callback(d, e, c, TRUE))}
    \cup {Run("message", text, on_message(d, e, c, text, t, TRUE, "none"))
            : text \in Texts(e.state) \cup {"/register", "/params"}}
HandlerRuns(d, e, c, t) == ButtonRuns(d, c, t) \cup MessageRuns(d, e, c, t)

\* the parts of C8: no handler run for chat a changes a record of chat b,
\* and it does the same whether or not the other chats' records exist
C8_WritesOwn ==
    \A a \in Chats :
        LET runs == HandlerRuns(db, fsm[<<a, IsoUser>>], a, now) IN
        \A b \in Chats \ {a} :
            LET before == RecordsOf(db, b) IN
            \A x \in runs : RecordsOf(x.db, b) = before
C8_ReadsOwn ==
    \A a \in Chats :
        {[x EXCEPT !.db = Only(x.db, a)] :
            x \in HandlerRuns(db, fsm[<<a, IsoUser>>], a, now)}
        = HandlerRuns(Only(db, a), fsm[<<a, IsoUser>>], a, now)
\* a step that writes for one chat, or changes an FSM entry of one chat,
\* leaves the records and the FSM entries of every other chat as they are
C8_OneChatPerStep ==
    \A b \in Chats :
        (\/ db' # db /\ last'.chat # b
         \/ \E a \in Chats \ {b} : FsmOf(fsm', a) # FsmOf(fsm, a))
        => /\ FsmOf(fsm', b) = FsmOf(fsm, b)
           /\ RecordsOf(db', b) = RecordsOf(db, b)

(* C8: a handler run for one chat neither changes nor depends on the       *)
(* records of another chat: for distinct chats a and b every handler of a  *)
(* leaves b's child, reminder, measurement, feeding, sleep, wakefulness,   *)
(* diaper, note and checklist rows as they are and gives the same result   *)
(* with b's rows removed, and a step changes the FSM entries of one chat.  *)
C8_ChatsAreIsolated ==
    [](C8_WritesOwn /\ C8_ReadsOwn) /\ [][C8_OneChatPerStep]_vars

\* chat 1 finished its feeding; the feeding of chat 2 is still open
C8_Witness ==
    /\ last.handler = "finish_feeding_callback" /\ last.chat = 1
    /\ OpenFeedings(db, 1) = {}
    /\ \E r \in db.feedings : r.chat_id = 1 /\ r.end_time # NULL
    /\ OpenFeedings(db, BusyChat) # {}
    /\ fsm[<<BusyChat, IsoUser>>].state = "waiting_for_height"

----------------------------------------------------------------------------
(* SpecDb: the mutating Database methods called one after another with     *)
(* any arguments, each call free to raise at any of its statements or at   *)
(* its commit.  `last` records whether the call raised, and which.         *)

MaxDbRows == 2         \* rows of SpecDb in all, reminders aside

\* failAt for a method of n statements: 0 for a call that returns, k for one
\* that raises at statement k, n + 1 for one that raises at the commit
FailPoints(n) == 0..(n + 1)

RowIds == {1}          \* the row ids the calls are made with
ChildArgs == {1}       \* the child ids the calls are made with

DbRows(d) ==
    d.seq["children"] + d.seq["measurements"] + d.seq["sleep_tracker"]
    + d.seq["wakefulness_tracker"] + d.seq["feedings"]
    + d.seq["diaper_tracker"] + d.seq["journal_notes"]
    + d.seq["daily_checklists"]

Call(method, r) ==
    /\ WithinBounds(r.db)
    /\ DbRows(r.db) <= MaxDbRows
    /\ db' = r.db
    /\ last' = [handler |-> IF r.raised THEN method ELSE "Database", chat |-> 0,
                out |-> IF r.raised THEN "raised" ELSE "returned",
                calls |-> <<>>]
    /\ UNCHANGED <<fsm, now, tasks>>

CallRegisterChild ==
    \E c \in Chats, k \in FailPoints(1 + Len(RegistrationReminders)) :
        Call("register_child", register_child(db, c, DefaultChildData, now, k))
CallAddMeasurement ==
    \E id \in ChildArgs, k \in FailPoints(2) :
        Call("add_measurement", add_measurement(db, id, 3500, 52, now, k))
CallStartSleep ==
    \E id \in ChildArgs, k \in FailPoints(1) :
        Call("start_sleep", start_sleep(db, id, now, k))
CallEndSleep ==
    \E id \in RowIds, k \in FailPoints(1) :
        Call("end_sleep", end_sleep(db, id, now, k))
CallStartWakefulness ==
    \E id \in ChildArgs, k \in FailPoints(1) :
        Call("start_wakefulness", start_wakefulness(db, id, now, k))
CallEndWakefulness ==
    \E id \in RowIds, k \in FailPoints(1) :
        Call("end_wakefulness", end_wakefulness(db, id, now, k))
CallAddDiaper ==
    \E id \in ChildArgs, k \in FailPoints(1) :
        Call("add_diaper", add_diaper(db, id, "both", now, k))
CallAddJournalNote ==
    \E id \in ChildArgs, k \in FailPoints(1) :
        Call("add_journal_note", add_journal_note(db, id, "note", now, k))
CallUpdateDailyChecklist ==
    \E id \in ChildArgs, v \in {0, 1}, k \in FailPoints(1) :
        Call("update_daily_checklist",
             update_daily_checklist(db, id, DateOf(now), "diapers_changed", v, k))
CallStartFeeding ==
    \E c \in Chats, id \in ChildArgs, k \in FailPoints(1) :
        Call("start_feeding", start_feeding(db, c, id, now, k))
CallPauseFeeding ==
    \E id \in RowIds, k \in FailPoints(1) :
        Call("pause_feeding", pause_feeding(db, id, now, k))
CallResumeFeeding ==
    \E id \in RowIds, k \in FailPoints(1) :
        Call("resume_feeding", resume_feeding(db, id, now, k))
CallAddEatenMl ==
    \E id \in RowIds, ml \in {10}, k \in FailPoints(1) :
        Call("add_eaten_ml", add_eaten_ml(db, id, ml, k))
CallFinishFeeding ==
    \E id \in RowIds, k \in FailPoints(1) :
        Call("finish_feeding", finish_feeding(db, id, now, k))

InitDb ==
    /\ db = EmptyDb
    /\ fsm = FsmInit
    /\ now = 0
    /\ last = NoUpdate
    /\ tasks = <<>>

NextDb ==
    \/ CallRegisterChild
    \/ CallAddMeasurement
    \/ CallStartSleep
    \/ CallEndSleep
    \/ CallStartWakefulness
    \/ CallEndWakefulness
    \/ CallAddDiaper
    \/ CallAddJournalNote
    \/ CallUpdateDailyChecklist
    \/ CallStartFeeding
    \/ CallPauseFeeding
    \/ CallResumeFeeding
    \/ CallAddEatenMl
    \/ CallFinishFeeding

SpecDb == InitDb /\ [][NextDb]_vars

\* the parts of C10
C10_RaisedLeftUnchanged == last'.out = "raised" => db' = db
C10_ChildWithItsReminders ==
    /\ \A c \in db.children :
          /\ Cardinality({r \in db.reminders : r.child_id = c.id})
                = Len(RegistrationReminders)
          /\ \A i \in 1..Len(RegistrationReminders) :
                \E r \in db.reminders :
                    /\ r.child_id = c.id /\ r.chat_id = c.chat_id
                    /\ r.reminder_type = RegistrationReminders[i][1]
                    /\ r.frequency_days = RegistrationReminders[i][2]
    /\ \A r \in db.reminders : \E c \in db.children : c.id = r.child_id

(* C10: a mutating Database method that raises leaves every table as it    *)
(* was before the call and the caller sees the exception; register_child   *)
(* stores the child row and its three reminder rows or none of them.       *)
C10_RaiseRollsBack ==
    [](C10_ChildWithItsReminders) /\ [][C10_RaisedLeftUnchanged]_vars

\* a second register_child raised at its last reminder: the first child
\* and its three reminders are all there is
C10_Witness ==
    /\ last.handler = "register_child" /\ last.out = "raised"
    /\ Cardinality(db.children) = 1
    /\ Cardinality(db.reminders) = 3

----------------------------------------------------------------------------
(* SpecNum: the numeric prompts.  One user of one chat registers a child,  *)
(* runs the measurement flow, starts and cancels a feeding, asks for a     *)
(* custom amount and a medication dose, and answers the prompts with     *)
(* numbers, words and messages that carry no text.                         *)

MaxNumRows == 3        \* measurement and feeding rows of SpecNum
MaxNumEatenMl == 2     \* mL added to a feeding of SpecNum

NumKeys == {<<1, 1>>}

\* the replies a numeric prompt is tried with in every state the model
\* reaches: numbers at and beside the limits, nan, words, and a message
\* that carries no text
Replies(state) ==
    CASE state = "waiting_for_gestation_weeks" ->
             {"19", "20", "42", "43", "forty", NoText}
      [] state = "waiting_for_gestation_days" ->
             {"-1", "0", "6", "7", "three", NoText}
      [] state = "waiting_for_birth_weight" ->
             {"499", "500", "6000", "6001", "nan", "heavy", NoText}
      [] state = "waiting_for_birth_height" ->
             {"29", "30", "70", "71", "tall", NoText}
      [] state = "waiting_for_weight" ->
             {"499", "500", "20000", "20001", "nan", "heavy", NoText}
      [] state = "waiting_for_height" ->
             {"29", "30", "120", "121", "tall", NoText}
      [] state = "waiting_for_custom_amount" ->
             {"0", "1", "500", "501", "some", NoText}
      [] state = "waiting_for_weight_for_med" ->
             {"1", "2", "30", "31", "nan", "light", NoText}
      [] OTHER -> {}

NumBounds(d) ==
    /\ d.seq["measurements"] + d.seq["feedings"] <= MaxNumRows
    /\ \A r \in d.feedings : r.total_eaten_ml <= MaxNumEatenMl

InNum(A) == A /\ NumBounds(db')

OnNumText(c, u) ==
    /\ fsm[<<c, u>>].state \notin {"None", "waiting_for_gender"}
    /\ \E text \in Texts(fsm[<<c, u>>].state)
                     \cup (Replies(fsm[<<c, u>>].state) \cap {NoText}),
          sent \in BOOLEAN,
          fail \in {"none", "register_child", "add_measurement",
                    "add_eaten_ml"} :
          HandleFsm(message_handler(fsm[<<c, u>>], text), c, u,
                    on_message(db, fsm[<<c, u>>], c, text, now, sent, fail))

OnAddCustom(c, u) ==
    \E sent \in BOOLEAN :
        HandleFsm("add_custom_callback", c, u,
                  add_custom_callback(db, fsm[<<c, u>>], c, sent))

\* the medication button the model presses
MedButtons == {"med_paracetamol"}

OnMedicationCalc(c, u) ==
    \E data \in MedButtons, sent \in BOOLEAN :
        HandleFsm("medication_calc_callback", c, u,
                  medication_calc_callback(db, fsm[<<c, u>>], data, sent))

\* the commands help_cmd lists
HelpCommands ==
    {"/start", "/register", "/child_info", "/params", "/stats", "/menu",
     "/help", "/feeding", "/add_eaten", "/pause", "/resume", "/finish"}

\* a command of the help text sent while no flow waits for a reply
OnCommand(c, u) ==
    /\ fsm[<<c, u>>].state = "None"
    /\ \E text \in HelpCommands, sent \in BOOLEAN :
          HandleFsm(message_handler(fsm[<<c, u>>], text), c, u,
                    on_message(db, fsm[<<c, u>>], c, text, now, sent, "none"))

InitNum ==
    /\ db = EmptyDb
    /\ fsm = FsmInit
    /\ now = 0
    /\ last = NoUpdate
    /\ tasks = <<>>

NextNum ==
    \/ \E k \in NumKeys : InNum(OnRegisterCmd(k[1], k[2]))
    \/ \E k \in NumKeys : InNum(OnGender(k[1], k[2]))
    \/ \E k \in NumKeys : InNum(OnNumText(k[1], k[2]))
    \/ \E k \in NumKeys : InNum(OnParamsCmd(k[1], k[2]))
    \/ \E k \in NumKeys : InNum(OnAddCustom(k[1], k[2]))
    \/ \E k \in NumKeys : InNum(OnMedicationCalc(k[1], k[2]))
    \/ \E k \in NumKeys : InNum(OnStartFeeding(k[1]))
    \/ \E k \in NumKeys : InNum(OnCancelFeeding(k[1]))
    \/ \E k \in NumKeys : InNum(OnCommand(k[1], k[2]))

SpecNum == InitNum /\ [][NextNum]_vars

----------------------------------------------------------------------------
(* C11: a numeric prompt that receives a reply that is not a number or is  *)
(* outside the accepted range re-prompts and leaves the FSM state, the     *)
(* flow data and the database unchanged.                                   *)

\* the range each prompt accepts
PromptRange(state) ==
    CASE state = "waiting_for_gestation_weeks" -> 20..42
      [] state = "waiting_for_gestation_days" -> 0..6
      [] state = "waiting_for_birth_weight" -> 500..6000
      [] state = "waiting_for_birth_height" -> 30..70
      [] state = "waiting_for_weight" -> 500..20000
      [] state = "waiting_for_height" -> 30..120
      [] state = "waiting_for_custom_amount" -> 1..500
      [] state = "waiting_for_weight_for_med" -> 2..30

\* the reply is not a number, or a number outside the prompt's range
Invalid(state, text) ==
    \/ text \notin DOMAIN IntText
    \/ IntText[text] \notin PromptRange(state)

\* the handler re-prompted and changed nothing
Reprompted(d, e, r) ==
    /\ r.out \in {"bad_format", "out_of_range"}
    /\ r.e = e
    /\ r.db = d

\* C11 as the specification states it: in every state in which a numeric
\* prompt waits, every invalid reply is answered with a re-prompt and
\* changes nothing
C11_InvalidReplyReprompts ==
    \A k \in NumKeys :
        \A text \in Replies(fsm[k].state) :
            Invalid(fsm[k].state, text) =>
                \A sent \in BOOLEAN :
                    Reprompted(db, fsm[k],
                               on_message(db, fsm[k], k[1], text, now, sent,
                                          "none"))

----------------------------------------------------------------------------
(* C12: every stored record respects the validated ranges.                 *)

\* the stored rows are within the ranges
RowsInRange(d) ==
    /\ \A r \in d.children :
          /\ r.gestation_weeks \in 20..42
          /\ r.gestation_days \in 0..6
          /\ r.birth_weight \in 500..6000
          /\ r.birth_height \in 30..70
    /\ \A r \in d.measurements :
          /\ r.weight \in 500..20000
          /\ r.height \in 30..120

\* the answers a flow has collected so far are within the ranges
DataInRange(e) ==
    /\ "gestation_weeks" \in DOMAIN e.data => e.data.gestation_weeks \in 20..42
    /\ "gestation_days" \in DOMAIN e.data => e.data.gestation_days \in 0..6
    /\ "birth_weight" \in DOMAIN e.data => e.data.birth_weight \in 500..6000
    /\ "weight" \in DOMAIN e.data => e.data.weight \in 500..20000

\* mL eaten, over a set of feedings (total_eaten_ml is NULL until the
\* first amount is added)
RECURSIVE SumEaten(_)
SumEaten(rows) ==
    IF rows = {} THEN 0
    ELSE LET r == CHOOSE x \in rows : TRUE
         IN  (IF r.total_eaten_ml = NULL THEN 0 ELSE r.total_eaten_ml)
             + SumEaten(rows \ {r})

\* what a reply to the waiting prompt stores is within the ranges, and a
\* custom amount is added only when it is in 1..500
C12_ReplyStoresInRange(k, text, sent, fail) ==
    LET r == on_message(db, fsm[k], k[1], text, now, sent, fail)
        added == SumEaten(r.db.feedings) - SumEaten(db.feedings)
    IN  /\ RowsInRange(r.db)
        /\ DataInRange(r.e)
        /\ IF fsm[k].state = "waiting_for_custom_amount"
              /\ "add_eaten_ml" \in {r.calls[i] : i \in DOMAIN r.calls}
           THEN added \in 1..500 /\ added = IntText[text]
           ELSE added = 0

(* C12: each child has gestation_weeks in 20..42, gestation_days in 0..6,  *)
(* birth_weight in 500..6000 and birth_height in 30..70; each measurement  *)
(* has weight in 500..20000 and height in 30..120; each accepted custom    *)
(* feeding amount is in 1..500 mL.  Checked on the stored rows and the     *)
(* collected answers of every state, and on what every reply at and beside *)
(* the limits would store there.                                           *)
C12_StoredWithinRanges ==
    /\ RowsInRange(db)
    /\ \A k \in NumKeys :
          /\ DataInRange(fsm[k])
          /\ \A text \in Replies(fsm[k].state), sent \in BOOLEAN,
                fail \in {"none", "add_measurement"} :
                C12_ReplyStoresInRange(k, text, sent, fail)

\* a child, its birth measurement and a later measurement are stored, a
\* custom amount was added to the open feeding, and the custom prompt
\* waits again
C12_Witness ==
    /\ db.children # {}
    /\ Cardinality(db.measurements) = 2
    /\ \E r \in db.feedings : r.end_time = NULL /\ r.total_eaten_ml = 1
    /\ \E k \in NumKeys : fsm[k].state = "waiting_for_custom_amount"

----------------------------------------------------------------------------
(* SpecRem: the reminder loop.  main() starts check_reminders as a task    *)
(* next to polling.  The task is the one entry of `tasks`:                 *)
(*   pc    "poll": about to call get_reminders_due; "send": in the for     *)
(*         loop, `todo` holding the reminders still to handle; "sleep": in *)
(*         asyncio.sleep until `wake`; "exited": the coroutine returned or *)
(*         raised                                                          *)
(*   after "completed" / "exception": how the last poll ended              *)
(*   sent  the ids of the reminders whose message bot.send_message has     *)
(*         sent in the poll under way or just ended; done: those of the    *)
(*         polls before it                                                  *)
(* The clock advances by the hour.                                         *)

MaxRemHours == 50      \* the clock of SpecRem stops after this many hours

HourSeconds == 3600

\* the rows of a table as fetchall() returns them, in rowid order
RECURSIVE RowsById(_)
RowsById(rows) ==
    IF rows = {} THEN <<>>
    ELSE <<FirstRow(rows)>> \o RowsById(rows \ {FirstRow(rows)})

\* JOIN children c ON r.child_id = c.id
\* WHERE r.next_reminder <= date('now') AND r.is_active = 1
get_reminders_due(d, t) ==
    RowsById({r \in d.reminders :
                /\ \E c \in d.children : c.id = r.child_id
                /\ r.next_reminder <= DateOf(t)
                /\ r.is_active = 1})

LoopStart == [kind |-> "check_reminders", pc |-> "poll", todo |-> <<>>,
              wake |-> 0, after |-> "start", sent |-> <<>>, done |-> {}]

\* asyncio.sleep(24 * 60 * 60) at the end of the try block
sleep_after_poll(task, t) ==
    [task EXCEPT !.pc = "sleep", !.todo = <<>>,
                 !.wake = t + 24 * 60 * 60, !.after = "completed"]

\* mutant: the except clause re-raises after logging
on_exception_reraise(task, t) ==
    [task EXCEPT !.pc = "exited", !.todo = <<>>, !.after = "exception"]

\* except Exception: logger.error(...), asyncio.sleep(60 * 60)
on_exception(task, t) ==
    [task EXCEPT !.pc = "sleep", !.todo = <<>>,
                 !.wake = t + 60 * 60, !.after = "exception"]

\* the top of the try block: get_reminders_due, which may raise
fetch_reminders(d, task, t, raises) ==
    IF raises THEN on_exception(task, t)
    ELSE LET reminders == get_reminders_due(d, t) IN
         IF reminders = <<>> THEN sleep_after_poll(task, t)
         ELSE [task EXCEPT !.pc = "send", !.todo = reminders]

\* one turn of the for loop: get_child, and for a chat that has a child
\* the awaited bot.send_message; either may raise
send_reminder(d, task, t, raises) ==
    IF raises THEN on_exception(task, t)
    ELSE LET sending == [task EXCEPT
                           !.sent = Append(@, Head(task.todo).id)] IN
         IF Len(task.todo) = 1 THEN sleep_after_poll(sending, t)
         ELSE [sending EXCEPT !.todo = Tail(task.todo)]

\* asyncio.sleep returns once its time has passed; the while loop starts
\* the next poll
wake_up(task) ==
    [task EXCEPT !.pc = "poll", !.sent = <<>>,
                 !.done = @ \cup {task.sent[i] : i \in 1..Len(task.sent)}]

ReminderPoll ==
    /\ tasks[1].pc = "poll"
    /\ \E raises \in BOOLEAN :
          tasks' = <<fetch_reminders(db, tasks[1], now, raises)>>
    /\ UNCHANGED <<db, fsm, now, last>>

ReminderSend ==
    /\ tasks[1].pc = "send"
    /\ \E raises \in BOOLEAN :
          tasks' = <<send_reminder(db, tasks[1], now, raises)>>
    /\ UNCHANGED <<db, fsm, now, last>>

ReminderWake ==
    /\ tasks[1].pc = "sleep"
    /\ now >= tasks[1].wake
    /\ tasks' = <<wake_up(tasks[1])>>
    /\ UNCHANGED <<db, fsm, now, last>>

\* an hour passes; a sleep that is over returns before the next hour does
HourPasses ==
    /\ now < MaxRemHours * HourSeconds
    /\ tasks[1].pc = "sleep" => now < tasks[1].wake
    /\ now' = now + HourSeconds
    /\ UNCHANGED <<db, fsm, last, tasks>>

\* no child; a child of chat 1; a child whose birth measurement failed,
\* so that its three reminders are due at once; a child in each chat
InitRem ==
    /\ db \in {EmptyDb,
               RegisteredAll(EmptyDb, {1}),
               register_child(EmptyDb, 1, DefaultChildData, 0, 0).db,
               RegisteredAll(EmptyDb, Chats)}
    /\ fsm = FsmInit
    /\ now = 0
    /\ last = NoUpdate
    /\ tasks = <<LoopStart>>

ReminderStep == ReminderPoll \/ ReminderSend \/ ReminderWake

NextRem ==
    \/ ReminderPoll
    \/ ReminderSend
    \/ ReminderWake
    \/ HourPasses

\* the event loop runs a task that is ready, and time passes
SpecRem ==
    InitRem /\ [][NextRem]_vars /\ WF_vars(ReminderStep) /\ WF_vars(HourPasses)

----------------------------------------------------------------------------
(* C13: the reminder loop never exits.                                     *)

C13_NeverExits == tasks[1].pc # "exited"

\* a poll that completes is followed by a sleep of 24 hours, an exception
\* by a sleep of 1 hour, and a sleep by the next poll, not before its time
C13_Step ==
    /\ (tasks[1].pc # "sleep" /\ tasks'[1].pc = "sleep") =>
          \/ /\ tasks'[1].after = "completed"
             /\ tasks'[1].wake = now + 24 * HourSeconds
          \/ /\ tasks'[1].after = "exception"
             /\ tasks'[1].wake = now + HourSeconds
    /\ tasks[1].pc = "poll" => tasks'[1].pc \in {"poll", "send", "sleep"}
    /\ tasks[1].pc = "send" => tasks'[1].pc \in {"send", "sleep"}
    /\ (tasks[1].pc = "sleep" /\ tasks'[1].pc # "sleep") =>
          /\ tasks'[1].pc = "poll"
          /\ now = tasks[1].wake

\* the loop polls again, as long as the clock of the model runs
C13_PollsAgain ==
    tasks[1].pc # "poll" ~>
        (tasks[1].pc = "poll" \/ now = MaxRemHours * HourSeconds)

(* C13: the reminder loop never exits: after a poll that completes it      *)
(* sleeps 24 hours and polls again, and after any exception raised while   *)
(* fetching or sending reminders it logs, sleeps 1 hour and polls again.   *)
C13_ReminderLoopNeverExits ==
    /\ []C13_NeverExits
    /\ [][C13_Step]_vars
    /\ C13_PollsAgain

\* the loop polls for the third time: once after a poll that failed while
\* sending and once after a poll that completed
C13_Witness ==
    /\ tasks[1].pc = "poll"
    /\ tasks[1].after = "completed"
    /\ now = 25 * HourSeconds

----------------------------------------------------------------------------
(* Database connections.  n is the number of connections open.             *)

\* sqlite3.connect(...)
get_connection(n) == n + 1

\* conn.close()
conn_close(n) == n - 1

\* a Database method: conn = self.get_connection(), try: ..., finally:
\* conn.close(), whether the body returns or raises
database_method(n) == conn_close(get_connection(n))

\* with sqlite3.connect(db.db_name) as conn: ...  Leaving the block commits
\* or rolls back the transaction; it does not close the connection
with_connect(n) == get_connection(n)

\* show_stats_dialog: get_child, the two SELECTs, the three statistics of
\* today, two replies
show_stats_dialog(d, chat_id, sent) ==
    IF get_child(d, chat_id) = None THEN Result(d, "no_child", <<>>)
    ELSE IF sent THEN Result(d, "ok", <<>>) ELSE Result(d, "error", <<>>)

show_stats_callback(d, chat_id, has_message, sent) ==
    IF ~has_message THEN Result(d, "no_message", <<>>) ELSE
    IF get_child(d, chat_id) = None THEN Result(d, "no_child", <<>>)
    ELSE show_stats_dialog(d, chat_id, sent)

\* the connections a handler run has opened and not closed when it ends:
\* cancel_feeding_callback and show_stats_dialog enter a with block once
\* they are past their early returns; every other access goes through a
\* Database method
connections_left(h, out) ==
    CASE h = "cancel_feeding" /\ out \notin {"no_message", "no_feeding"} ->
             with_connect(database_method(0))
      [] h = "show_stats" /\ out \notin {"no_message", "no_child"} ->
             database_method(with_connect(database_method(0)))
      [] OTHER -> database_method(0)

\* a connection left open is closed when the interpreter finalizes the
\* object, which may be before or after the next update is handled
open_after(h, out, finalized) ==
    IF finalized THEN 0 ELSE connections_left(h, out)

StatsRuns(d, c) ==
    {Run("show_stats", "", show_stats_callback(d, c, m, sent))
       : m \in BOOLEAN, sent \in BOOLEAN}

\* C14 as the specification states it: every connection a handler opens
\* is closed before the handler finishes, so that none is open after a
\* handled update, cancel_feeding_callback and show_stats_dialog included
C14_ConnectionsClosed ==
    \A c \in TrackedChats :
        \A x \in ButtonRuns(db, c, now) \cup StatsRuns(db, c) :
            \A finalized \in BOOLEAN : open_after(x.h, x.out, finalized) = 0

----------------------------------------------------------------------------
(* C15: cancelling a feeding *)

\* show_stats_dialog's first SELECT: per date of the last 7 days, the
\* number of the child's feedings and the sum of their total_eaten_ml
\* (SUM skips NULL)
feedings_stats(d, child_id, t) ==
    LET rows == {r \in d.feedings :
                   /\ r.child_id = child_id
                   /\ DateOf(r.start_time) >= DateOf(t) - 7}
    IN  [day \in {DateOf(r.start_time) : r \in rows} |->
           LET of_day == {r \in rows : DateOf(r.start_time) = day}
           IN  [feedings_count |-> Cardinality(of_day),
                total_ml |-> SumEaten(of_day)]]

\* the feedings the statistics of a day count, and their mL
CountedOn(d, child_id, t, day) ==
    LET stats == feedings_stats(d, child_id, t)
    IN  IF day \in DOMAIN stats THEN stats[day]
        ELSE [feedings_count |-> 0, total_ml |-> 0]

\* a cancel that went through: the open feeding of the chat is gone from
\* the table and from the statistics, every other row is as it was, and
\* start_feeding is accepted again
C15_CancelStep ==
    Wrote("cancel_feeding_callback", "ok") =>
        LET c == last'.chat
            f == get_active_feeding(db, c)
            day == DateOf(f.start_time)
            before == CountedOn(db, f.child_id, now, day)
            after == CountedOn(db', f.child_id, now, day)
        IN  /\ f # None
            /\ db'.feedings = db.feedings \ {f}
            /\ \A r \in db'.feedings : r.id # f.id
            /\ OpenFeedings(db', c) = {}
            /\ \A table \in TableNames \ {"feedings"} : db'[table] = db[table]
            /\ after.feedings_count = before.feedings_count - 1
            /\ after.total_ml = before.total_ml - SumEaten({f})
            /\ start_feeding_callback(db', c, now, TRUE, "none").out = "ok"

\* a cancel with no open feeding leaves the database as it is
C15_NothingToCancel ==
    \A c \in TrackedChats :
        get_active_feeding(db, c) = None =>
            \A m \in BOOLEAN, fail \in {"none", "DELETE"} :
                /\ cancel_feeding_callback(db, c, m, fail).db = db
                /\ cancel_feeding_callback(db, c, TRUE, fail).out = "no_feeding"

(* C15: cancelling a feeding removes the chat's open feeding record        *)
(* entirely: afterwards the chat has no open feeding, the cancelled record *)
(* is counted in no statistics, a new feeding can be started, and all      *)
(* other feeding records are unchanged; cancel with no open feeding        *)
(* changes nothing.                                                        *)
C15_CancelRemovesOpenFeeding ==
    [](C15_NothingToCancel) /\ [][C15_CancelStep]_vars

\* the second feeding of the chat, with something eaten, was cancelled:
\* the first, finished one is still there and nothing is open
C15_Witness ==
    /\ last.handler = "cancel_feeding_callback" /\ last.out = "ok"
    /\ db.seq["feedings"] = 2
    /\ \E r \in db.feedings : r.id = 1 /\ r.end_time # NULL
                              /\ r.total_eaten_ml = 5
    /\ Cardinality(db.feedings) = 1

----------------------------------------------------------------------------
(* C16: the commands of the help text *)

\* the button handler a feeding command stands for
CommandButton(d, c, t, text) ==
    CASE text = "/feeding" -> start_feeding_callback(d, c, t, TRUE, "none")
      [] text = "/pause" -> pause_feeding_callback(d, c, t, TRUE, "none")
      [] text = "/resume" -> resume_feeding_callback(d, c, t, TRUE, "none")
      [] text = "/finish" -> finish_feeding_callback(d, c, t, TRUE, "none")

\* C16 as the specification states it: for a chat with a registered child
\* and no flow waiting, every command of the help text has a handler;
\* /feeding, /pause, /resume and /finish leave the database as their
\* buttons do, so that /feeding with no open feeding starts one
C16_HelpCommandsHandled ==
    \A k \in NumKeys :
        (get_child(db, k[1]) # None /\ fsm[k].state = "None") =>
            /\ \A text \in HelpCommands :
                  message_handler(fsm[k], text) # "unhandled"
            /\ \A text \in {"/feeding", "/pause", "/resume", "/finish"} :
                  on_message(db, fsm[k], k[1], text, now, TRUE, "none").db
                      = CommandButton(db, k[1], now, text).db
            /\ get_active_feeding(db, k[1]) = None =>
                  get_active_feeding(
                      on_message(db, fsm[k], k[1], "/feeding", now, TRUE,
                                 "none").db, k[1]) # None

----------------------------------------------------------------------------
(* C17: nothing is tracked for a chat without a child *)

\* the tables of tracked records
TrackedTables ==
    {"feedings", "sleep_tracker", "wakefulness_tracker", "diaper_tracker",
     "journal_notes", "measurements", "daily_checklists"}

\* the tracked records of chat c: feedings carry the chat, the other
\* tables the child
TrackedOf(d, c) == [t \in TrackedTables |-> RecordsOf(d, c)[t]]

\* the records that belong to no child of the database
Orphans(d) ==
    {r \in d.feedings : get_child(d, r.chat_id) = None
                        \/ r.child_id \notin ChildIds(d)}
    \cup {r \in d.sleep_tracker \cup d.wakefulness_tracker
                \cup d.diaper_tracker \cup d.journal_notes
                \cup d.measurements \cup d.daily_checklists :
            r.child_id \notin ChildIds(d)}

\* every handler run for chat c but the registration, the feeding and
\* statistics dialogs included
ChildScopedRuns(d, e, c, t) ==
    {x \in HandlerRuns(d, e, c, t) : x.input # "/register"}
    \cup {Run("add_custom", "", add_custom_callback(d, e, c, TRUE)),
          Run("show_stats", "", show_stats_callback(d, c, TRUE, TRUE))}
    \cup {Run("diaper_failing", f,
              process_diaper_callback(d, c, "diaper_urine", t, f))
            : f \in {"add_diaper", "update_daily_checklist"}}

\* the replies of a handler that found no child, or no feeding to act on
RefusedReplies == {"no_child", "no_feeding", "not_paused", "unhandled"}

C17_NoChild(c) == get_child(db, c) = None

C17_NothingTracked ==
    /\ Orphans(db) = {}
    /\ \A c \in Chats :
          C17_NoChild(c) =>
              /\ \A t \in TrackedTables : TrackedOf(db, c)[t] = {}
              /\ \A x \in ChildScopedRuns(db, fsm[<<c, IsoUser>>], c, now) :
                    x.db = db /\ x.out \in RefusedReplies

\* a step taken while the pressing chat has no child writes nothing
C17_Step ==
    (\A c \in Chats \ {BusyChat} : C17_NoChild(c)) => db' = db

(* C17: no feeding, sleep, wakefulness, diaper event, journal note,       *)
(* measurement or checklist row exists for a chat without a registered    *)
(* child, no record is without its child, and every handler run for such  *)
(* a chat refuses and leaves the database unchanged.                      *)
C17_NoRecordWithoutChild == [](C17_NothingTracked) /\ [][C17_Step]_vars

\* chat 1 has no child and nothing tracked, whatever it pressed, while the
\* registered chat has its feeding, sleep, diaper event and note
C17_Witness ==
    /\ C17_NoChild(1)
    /\ \A t \in TrackedTables : TrackedOf(db, 1)[t] = {}
    /\ ChildScopedRuns(db, fsm[<<1, IsoUser>>], 1, now) # {}
    /\ \A x \in ChildScopedRuns(db, fsm[<<1, IsoUser>>], 1, now) :
          x.out \in RefusedReplies
    /\ \A t \in TrackedTables \ {"wakefulness_tracker"} :
          TrackedOf(db, BusyChat)[t] # {}

----------------------------------------------------------------------------
(* SpecLife: the sleep, wakefulness and feeding handlers of one chat       *)
(* pressed in any order; the clock stands still.                           *)

MaxLifeRows == 2       \* sleep and wakefulness rows ever inserted
MaxLifeFeedings == 1   \* feedings ever inserted
MaxLifePauses == 1     \* pauses of the feeding
MaxLifeEatenMl == 5    \* the eaten total is not driven past this

LifeBounds(d) ==
    /\ d.seq["sleep_tracker"] + d.seq["wakefulness_tracker"] <= MaxLifeRows
    /\ d.seq["feedings"] <= MaxLifeFeedings
    /\ \A r \in d.feedings :
          /\ r.pauses_count <= MaxLifePauses
          /\ r.total_eaten_ml <= MaxLifeEatenMl

\* an update handled within the bounds of SpecLife
InLife(A) == A /\ LifeBounds(db')

NextLife ==
    \/ \E c \in TrackedChats : InLife(OnStartSleep(c))
    \/ \E c \in TrackedChats : InLife(OnEndSleep(c))
    \/ \E c \in TrackedChats : InLife(OnStartWake(c))
    \/ \E c \in TrackedChats : InLife(OnEndWake(c))
    \/ \E c \in TrackedChats : InLife(OnStartFeeding(c))
    \/ \E c \in TrackedChats : InLife(OnAddEatenQuick(c))
    \/ \E c \in TrackedChats : InLife(OnPauseFeeding(c))
    \/ \E c \in TrackedChats : InLife(OnResumeFeeding(c))
    \/ \E c \in TrackedChats : InLife(OnFinishFeeding(c))

SpecLife == Init /\ [][NextLife]_vars

----------------------------------------------------------------------------
(* C18: a rejected interval operation changes nothing *)

\* the Database methods a handler calls: each may raise
Failures ==
    [start_sleep |-> {"none", "end_wakefulness", "start_sleep"},
     end_sleep |-> {"none", "end_sleep"},
     start_wake |-> {"none", "end_sleep", "start_wakefulness"},
     end_wake |-> {"none", "end_wakefulness"},
     start_feeding |-> {"none", "start_feeding"},
     pause_feeding |-> {"none", "pause_feeding"},
     resume_feeding |-> {"none", "resume_feeding"},
     finish_feeding |-> {"none", "finish_feeding"},
     add_eaten |-> {"none", "add_eaten_ml"}]

\* the open feeding of the chat is paused
Paused(d, c) == \E r \in OpenFeedings(d, c) : r.is_paused # 0

\* the runs of the interval handlers the state of chat c rejects: a start
\* with the interval open, an end, finish, pause or add with nothing open,
\* a pause of a paused feeding, a resume of one that is not paused
RejectedRuns(d, c, t) ==
    LET child == get_child(d, c)
        sleeping == child # None /\ OpenSleeps(d, child.id) # {}
        awake == child # None /\ OpenWakes(d, child.id) # {}
        feeding == OpenFeedings(d, c) # {}
        waiting == [state |-> "waiting_for_custom_amount", data |-> NoData]
    IN  (IF sleeping
         THEN {Run("start_sleep", f, start_sleep_callback(d, c, t, f))
                 : f \in Failures.start_sleep}
         ELSE {Run("end_sleep", f, end_sleep_callback(d, c, t, f))
                 : f \in Failures.end_sleep})
        \cup
        (IF awake
         THEN {Run("start_wake", f, start_wake_callback(d, c, t, f))
                 : f \in Failures.start_wake}
         ELSE {Run("end_wake", f, end_wake_callback(d, c, t, f))
                 : f \in Failures.end_wake})
        \cup
        (IF feeding
         THEN {Run("start_feeding", f,
                   start_feeding_callback(d, c, t, TRUE, f))
                 : f \in Failures.start_feeding}
         ELSE {Run("finish_feeding", f,
                   finish_feeding_callback(d, c, t, TRUE, f))
                 : f \in Failures.finish_feeding}
              \cup {Run("pause_feeding", f,
                        pause_feeding_callback(d, c, t, TRUE, f))
                      : f \in Failures.pause_feeding}
              \cup {Run("add_custom", "",
                        add_custom_callback(d, Cleared, c, TRUE))}
              \cup {Run("custom_amount", f,
                        process_custom_amount(d, waiting, c, "20", TRUE, f))
                      : f \in Failures.add_eaten}
              \cup {Run("add_eaten", <<b, f>>,
                        add_eaten_quick_callback(d, c, b, f))
                      : b \in DOMAIN ml_map, f \in Failures.add_eaten})
        \cup
        (IF Paused(d, c)
         THEN {Run("pause_feeding", f,
                   pause_feeding_callback(d, c, t, TRUE, f))
                 : f \in Failures.pause_feeding}
         ELSE {Run("resume_feeding", f,
                   resume_feeding_callback(d, c, t, TRUE, f))
                 : f \in Failures.resume_feeding})

\* the replies of a rejected interval operation
RejectedReplies ==
    {"no_child", "already_active", "not_active", "no_feeding",
     "already_paused", "not_paused"}

(* C18: a rejected interval operation changes nothing: start_sleep with a  *)
(* sleep open, start_wake with a wakefulness open, start_feeding with a    *)
(* feeding open, end_sleep, end_wake, finish, pause and add with nothing   *)
(* open, pause of a paused feeding and resume of an unpaused one leave     *)
(* every table of the database as it was.                                 *)
C18_RejectedChangesNothing ==
    \A c \in Chats :
        \A x \in RejectedRuns(db, c, now) :
            x.db = db /\ x.out \in RejectedReplies

\* chat 1 sleeps and its feeding is paused: start_sleep, end_wake,
\* start_feeding and pause are rejected
C18_Witness ==
    /\ get_child(db, 1) # None
    /\ OpenSleeps(db, get_child(db, 1).id) # {}
    /\ Paused(db, 1)
    /\ {x.h : x \in RejectedRuns(db, 1, now)}
           = {"start_sleep", "end_wake", "start_feeding", "pause_feeding"}
    /\ {x.out : x \in RejectedRuns(db, 1, now)}
           = {"already_active", "not_active", "already_paused"}

----------------------------------------------------------------------------
(* SpecPause: one chat feeds while the clock advances: the feeding is      *)
(* started, paused, resumed, added to, finished or cancelled at any tick.  *)

MaxPauseFeedings == 1  \* feedings ever inserted
MaxPauseEatenMl == 5   \* the eaten total is not driven past this

PauseBounds(d) ==
    /\ d.seq["feedings"] <= MaxPauseFeedings
    /\ \A r \in d.feedings : r.total_eaten_ml <= MaxPauseEatenMl

\* an update handled within the bounds of SpecPause
InPause(A) == A /\ PauseBounds(db')

NextPause ==
    \/ Tick
    \/ \E c \in TrackedChats : InPause(OnStartFeeding(c))
    \/ \E c \in TrackedChats : InPause(OnAddEatenQuick(c))
    \/ \E c \in TrackedChats : InPause(OnPauseFeeding(c))
    \/ \E c \in TrackedChats : InPause(OnResumeFeeding(c))
    \/ \E c \in TrackedChats : InPause(OnFinishFeeding(c))
    \/ \E c \in TrackedChats : InPause(OnCancelFeeding(c))

SpecPause == Init /\ [][NextPause]_vars

----------------------------------------------------------------------------
(* C19: the pause state machine of a feeding *)

\* the pause columns of a feeding row
PauseColumns(r) ==
    <<r.is_paused, r.paused_at, r.pauses_count, r.total_pause_duration>>

\* is_paused = 1 exactly when paused_at is set
C19_Flags ==
    \A r \in db.feedings :
        /\ r.is_paused \in {0, 1}
        /\ (r.is_paused = 1) <=> (r.paused_at # NULL)

\* pause is accepted exactly on an open, unpaused feeding and resume
\* exactly on an open, paused one (a Database call that raises aside)
C19_Accepts ==
    \A c \in TrackedChats :
        LET open == OpenFeedings(db, c) # {}
            paused == Paused(db, c)
        IN  /\ \A f \in Failures.pause_feeding :
                 LET x == pause_feeding_callback(db, c, now, TRUE, f) IN
                 /\ x.db # db => open /\ ~paused
                 /\ (open /\ ~paused /\ f = "none")
                        => x.out = "ok" /\ Paused(x.db, c)
            /\ \A f \in Failures.resume_feeding :
                 LET x == resume_feeding_callback(db, c, now, TRUE, f) IN
                 /\ x.db # db => open /\ paused
                 /\ (open /\ paused /\ f = "none")
                        => x.out = "ok" /\ ~Paused(x.db, c)
                           /\ OpenFeedings(x.db, c) # {}

\* a step changes the pause columns of a feeding only as an accepted pause
\* or resume does: the pause counts one more and notes the time, the
\* resume adds the time since then to the total; a new feeding starts
\* unpaused, with no pause counted and no pause time
C19_Step ==
    /\ \A q \in db'.feedings :
          (\A r \in db.feedings : r.id # q.id)
              => PauseColumns(q) = <<0, NULL, 0, 0>>
    /\ \A r \in db.feedings : \A q \in db'.feedings :
          r.id = q.id =>
              \/ PauseColumns(q) = PauseColumns(r)
              \/ /\ Wrote("pause_feeding_callback", "ok")
                 /\ r.end_time = NULL /\ r.is_paused = 0
                 /\ PauseColumns(q) = <<1, now, r.pauses_count + 1,
                                        r.total_pause_duration>>
              \/ /\ Wrote("resume_feeding_callback", "ok")
                 /\ r.end_time = NULL /\ r.is_paused = 1
                 /\ PauseColumns(q) =
                        <<0, NULL, r.pauses_count,
                          r.total_pause_duration + (now - r.paused_at)>>
    /\ Wrote("pause_feeding_callback", "ok")
          => \E r \in db.feedings : \E q \in db'.feedings :
                r.id = q.id /\ q.pauses_count = r.pauses_count + 1
    /\ Wrote("resume_feeding_callback", "ok")
          => \E r \in db.feedings : \E q \in db'.feedings :
                r.id = q.id /\ r.is_paused = 1 /\ q.is_paused = 0

(* C19: pause is accepted only on an open, unpaused feeding and resume     *)
(* only on an open, paused one; is_paused = 1 exactly when paused_at is    *)
(* set; every accepted pause adds one to pauses_count and nothing else     *)
(* changes it; every resume adds the length of the pause it ends, in       *)
(* whole seconds, to total_pause_duration and nothing else changes it.     *)
C19_PauseStateMachine ==
    [](C19_Flags /\ C19_Accepts) /\ [][C19_Step]_vars

\* a feeding paused twice, each time for one tick, and resumed twice
C19_Witness ==
    /\ last.handler = "resume_feeding_callback"
    /\ \E r \in db.feedings :
          /\ r.pauses_count = 2
          /\ r.total_pause_duration = 2 * TickSeconds
          /\ r.is_paused = 0 /\ r.paused_at = NULL

----------------------------------------------------------------------------
(* C20: the duration of a feeding finished while paused *)

\* total_duration_seconds of finish_feeding_callback: the time from
\* start_time to now less the total_pause_duration of the row read before
\* finish_feeding
total_duration_seconds(d, chat_id, t) ==
    LET feeding == get_active_feeding(d, chat_id)
    IN  (t - feeding.start_time)
        - (IF feeding.total_pause_duration = NULL THEN 0
           ELSE feeding.total_pause_duration)

\* the time a feeding has spent paused at time t: the pauses that were
\* resumed and the pause in progress
PausedTime(r, t) ==
    r.total_pause_duration
    + (IF r.is_paused = 1 THEN t - r.paused_at ELSE 0)

\* C20 as the specification states it: the duration finish_feeding_callback
\* reports excludes all the time the feeding spent paused, a pause in
\* progress included, and a finished feeding is not left paused
\* (is_paused = 0, paused_at unset)
C20_FinishExcludesPausedTime ==
    /\ \A c \in TrackedChats :
          LET feeding == get_active_feeding(db, c) IN
          feeding # None =>
              /\ total_duration_seconds(db, c, now)
                     = (now - feeding.start_time) - PausedTime(feeding, now)
              /\ \A r \in finish_feeding_callback(db, c, now, TRUE,
                                                  "none").db.feedings :
                    r.id = feeding.id =>
                        r.end_time # NULL /\ r.is_paused = 0
                        /\ r.paused_at = NULL
    /\ \A r \in db.feedings :
          r.end_time # NULL => r.is_paused = 0 /\ r.paused_at = NULL

----------------------------------------------------------------------------
(* SpecEat: one chat feeds and adds what was eaten, by the quick buttons   *)
(* and by the custom-amount dialog; the clock stands still.                *)

MaxEatFeedings == 2    \* feedings ever inserted
MaxEatTotal == 12      \* the eaten total is not driven past this

EatKeys == {<<1, 1>>}

EatBounds(d) ==
    /\ d.seq["feedings"] <= MaxEatFeedings
    /\ \A r \in d.feedings : r.total_eaten_ml <= MaxEatTotal

\* an update handled within the bounds of SpecEat
InEat(A) == A /\ EatBounds(db')

\* a reply to the custom-amount prompt
OnCustomAmount(c, u) ==
    /\ fsm[<<c, u>>].state = "waiting_for_custom_amount"
    /\ \E text \in Texts("waiting_for_custom_amount"), sent \in BOOLEAN,
          fail \in {"none", "add_eaten_ml"} :
          HandleFsm(message_handler(fsm[<<c, u>>], text), c, u,
                    on_message(db, fsm[<<c, u>>], c, text, now, sent, fail))

NextEat ==
    \/ \E k \in EatKeys : InEat(OnStartFeeding(k[1]))
    \/ \E k \in EatKeys : InEat(OnAddEatenQuick(k[1]))
    \/ \E k \in EatKeys : InEat(OnAddCustom(k[1], k[2]))
    \/ \E k \in EatKeys : InEat(OnCustomAmount(k[1], k[2]))
    \/ \E k \in EatKeys : InEat(OnFinishFeeding(k[1]))

SpecEat == Init /\ [][NextEat]_vars

----------------------------------------------------------------------------
(* C21: the eaten total of a feeding *)

\* total_eaten of add_eaten_quick_callback and process_custom_amount: the
\* total of the row read before add_eaten_ml, None as 0, plus the amount
total_eaten(d, chat_id, eaten_ml) ==
    LET feeding == get_active_feeding(d, chat_id)
    IN  (IF feeding.total_eaten_ml = NULL THEN 0
         ELSE feeding.total_eaten_ml) + eaten_ml

\* total_eaten_ml, null counted as 0
Eaten(r) == IF r.total_eaten_ml = NULL THEN 0 ELSE r.total_eaten_ml

\* the stored total of feeding `id`
StoredEaten(d, id) == Eaten(CHOOSE r \in d.feedings : r.id = id)

\* every addition to the open feeding stores the old total plus the amount
\* and shows what it stored; a reply that is no amount stores nothing
C21_Adds ==
    \A k \in EatKeys :
        LET c == k[1]
            feeding == get_active_feeding(db, c)
            waiting == [state |-> "waiting_for_custom_amount",
                        data |-> NoData]
        IN  feeding # None =>
            /\ \A b \in DOMAIN ml_map :
                  LET x == add_eaten_quick_callback(db, c, b, "none") IN
                  /\ x.out = "ok"
                  /\ StoredEaten(x.db, feeding.id)
                         = Eaten(feeding) + ml_map[b]
                  /\ total_eaten(db, c, ml_map[b])
                         = StoredEaten(x.db, feeding.id)
            /\ \A text \in Replies("waiting_for_custom_amount") :
                  LET x == process_custom_amount(db, waiting, c, text,
                                                 TRUE, "none") IN
                  IF x.out = "ok"
                  THEN /\ StoredEaten(x.db, feeding.id)
                              = Eaten(feeding) + IntText[text]
                       /\ total_eaten(db, c, IntText[text])
                              = StoredEaten(x.db, feeding.id)
                  ELSE x.db = db

\* the total of a feeding changes only by an addition to it while it is
\* open, and by the amount of that addition; a new feeding has eaten
\* nothing
C21_Step ==
    /\ \A q \in db'.feedings :
          (\A r \in db.feedings : r.id # q.id) => Eaten(q) = 0
    /\ \A r \in db.feedings : \A q \in db'.feedings :
          r.id = q.id =>
              \/ q.total_eaten_ml = r.total_eaten_ml
              \/ /\ last'.handler = "add_eaten_quick_callback"
                 /\ r.end_time = NULL
                 /\ \E b \in DOMAIN ml_map :
                       Eaten(q) = Eaten(r) + ml_map[b]
              \/ /\ last'.handler = "process_custom_amount"
                 /\ r.end_time = NULL
                 /\ \E n \in 1..500 : Eaten(q) = Eaten(r) + n

(* C21: total_eaten_ml of an open feeding, null counted as 0, is the sum   *)
(* of the amounts the quick-add buttons and the custom-amount dialog       *)
(* accepted since the feeding started: a new feeding has eaten nothing,    *)
(* every accepted amount is added once and nothing else changes the        *)
(* total; the total shown in the reply is the total stored by then.        *)
C21_EatenIsSumOfAdditions == [](C21_Adds) /\ [][C21_Step]_vars

\* 11 ml eaten: amounts of the buttons and 1 ml of the dialog, a button last
C21_Witness ==
    /\ last.handler = "add_eaten_quick_callback"
    /\ \E r \in db.feedings : r.end_time = NULL /\ r.total_eaten_ml = 11

----------------------------------------------------------------------------
(* SpecClosed: sleeps, wakefulness periods and feedings of one chat are    *)
(* opened, paused, closed and cancelled in any order, so that closed       *)
(* records lie beside open ones; the clock stands still.                   *)

MaxClosedRows == 2      \* sleep and wakefulness rows ever inserted
MaxClosedFeedings == 2  \* feedings ever inserted
MaxClosedPauses == 1    \* pauses of a feeding

ClosedBounds(d) ==
    /\ d.seq["sleep_tracker"] + d.seq["wakefulness_tracker"] <= MaxClosedRows
    /\ d.seq["feedings"] <= MaxClosedFeedings
    /\ \A r \in d.feedings : r.pauses_count <= MaxClosedPauses

\* an update handled within the bounds of SpecClosed
InClosed(A) == A /\ ClosedBounds(db')

NextClosed ==
    \/ \E c \in TrackedChats : InClosed(OnStartSleep(c))
    \/ \E c \in TrackedChats : InClosed(OnEndSleep(c))
    \/ \E c \in TrackedChats : InClosed(OnStartWake(c))
    \/ \E c \in TrackedChats : InClosed(OnEndWake(c))
    \/ \E c \in TrackedChats : InClosed(OnStartFeeding(c))
    \/ \E c \in TrackedChats : InClosed(OnPauseFeeding(c))
    \/ \E c \in TrackedChats : InClosed(OnResumeFeeding(c))
    \/ \E c \in TrackedChats : InClosed(OnFinishFeeding(c))
    \/ \E c \in TrackedChats : InClosed(OnCancelFeeding(c))

SpecClosed == Init /\ [][NextClosed]_vars

----------------------------------------------------------------------------
(* C22: a closed interval is immutable *)

\* the closed intervals of the database: feedings with end_time, sleeps
\* with sleep_end, wakefulness periods with wake_end
ClosedIntervals(d) ==
    [feedings |-> {r \in d.feedings : r.end_time # NULL},
     sleep_tracker |-> {r \in d.sleep_tracker : r.sleep_end # NULL},
     wakefulness_tracker |->
         {r \in d.wakefulness_tracker : r.wake_end # NULL}]

\* every closed interval of d is in e, with every field as it was
KeepsClosed(d, e) ==
    \A t \in DOMAIN ClosedIntervals(d) :
        ClosedIntervals(d)[t] \subseteq ClosedIntervals(e)[t]

\* every interval handler run a tick later, every Database call failing
\* in turn
IntervalRuns(d, c) ==
    UNION {
      {Run("start_sleep", f, start_sleep_callback(d, c, t, f))
         : f \in Failures.start_sleep}
      \cup {Run("end_sleep", f, end_sleep_callback(d, c, t, f))
              : f \in Failures.end_sleep}
      \cup {Run("start_wake", f, start_wake_callback(d, c, t, f))
              : f \in Failures.start_wake}
      \cup {Run("end_wake", f, end_wake_callback(d, c, t, f))
              : f \in Failures.end_wake}
      \cup {Run("start_feeding", f, start_feeding_callback(d, c, t, TRUE, f))
              : f \in Failures.start_feeding}
      \cup {Run("pause_feeding", f, pause_feeding_callback(d, c, t, TRUE, f))
              : f \in Failures.pause_feeding}
      \cup {Run("resume_feeding", f,
                resume_feeding_callback(d, c, t, TRUE, f))
              : f \in Failures.resume_feeding}
      \cup {Run("finish_feeding", f,
                finish_feeding_callback(d, c, t, TRUE, f))
              : f \in Failures.finish_feeding}
      \cup {Run("cancel_feeding", f, cancel_feeding_callback(d, c, TRUE, f))
              : f \in {"none", "DELETE"}}
      \cup {Run("add_eaten", <<b, f>>, add_eaten_quick_callback(d, c, b, f))
              : b \in DOMAIN ml_map, f \in Failures.add_eaten}
      \cup {Run("custom_amount", f,
                process_custom_amount(
                    d, [state |-> "waiting_for_custom_amount",
                        data |-> NoData], c, "20", TRUE, f))
              : f \in Failures.add_eaten}
      : t \in {now + TickSeconds}}

C22_RunsKeepClosed ==
    \A c \in TrackedChats :
        \A x \in IntervalRuns(db, c) : KeepsClosed(db, x.db)

C22_Step == KeepsClosed(db, db')

(* C22: a closed interval is immutable: a feeding with end_time set, a     *)
(* sleep with sleep_end set and a wakefulness period with wake_end set     *)
(* keep every field and are never deleted, whatever handler runs next and  *)
(* whenever it runs.                                                       *)
C22_ClosedIntervalImmutable == [](C22_RunsKeepClosed) /\ [][C22_Step]_vars

\* a finished feeding, paused when it was finished, beside an open, paused
\* one and a closed sleep beside an open wakefulness
C22_Witness ==
    /\ \E r \in db.feedings : r.end_time # NULL /\ r.is_paused = 1
    /\ Paused(db, 1)
    /\ ClosedIntervals(db).sleep_tracker # {}
    /\ \E r \in db.wakefulness_tracker : r.wake_end = NULL

----------------------------------------------------------------------------
(* C23: ending an interval does not start the opposite one *)

\* the child the handlers of chat c act on
ChildOf(d, c) == get_child(d, c).id

C23_EndSleepStep ==
    Wrote("end_sleep_callback", "ok") =>
        LET c == last'.chat IN
        /\ OpenSleeps(db, ChildOf(db, c)) # {}
        /\ OpenSleeps(db', ChildOf(db, c)) = {}
        /\ OpenWakes(db', ChildOf(db, c)) = {}
        /\ db'.wakefulness_tracker = db.wakefulness_tracker

C23_EndWakeStep ==
    Wrote("end_wake_callback", "ok") =>
        LET c == last'.chat IN
        /\ OpenWakes(db, ChildOf(db, c)) # {}
        /\ OpenWakes(db', ChildOf(db, c)) = {}
        /\ OpenSleeps(db', ChildOf(db, c)) = {}
        /\ db'.sleep_tracker = db.sleep_tracker

(* C23: after an accepted end_sleep the child has neither an open sleep    *)
(* nor an open wakefulness and the wakefulness table is as it was; after   *)
(* an accepted end_wake the child has neither and the sleep table is as    *)
(* it was.                                                                 *)
C23_EndStartsNothing == [][C23_EndSleepStep /\ C23_EndWakeStep]_vars

\* a sleep ended after an earlier wakefulness: nothing is open
C23_Witness ==
    /\ last.handler = "end_sleep_callback" /\ last.out = "ok"
    /\ db.wakefulness_tracker # {}
    /\ \A r \in db.sleep_tracker : r.sleep_end # NULL
    /\ \A r \in db.wakefulness_tracker : r.wake_end # NULL

----------------------------------------------------------------------------
(* Statistics of today and the recommendations by age *)

\* the host's offsets from UTC, in seconds: datetime.now() is local time,
\* SQLite's DATE('now') is the UTC date
UtcOffsets == {0, 3 * HourSeconds}

\* SUM(duration_minutes) over a set of rows
RECURSIVE SumMinutes(_)
SumMinutes(rows) ==
    IF rows = {} THEN 0
    ELSE LET r == CHOOSE x \in rows : TRUE
         IN  r.duration_minutes + SumMinutes(rows \ {r})

\* COUNT(*), SUM and AVG over the selected rows; SUM and AVG of no row are
\* NULL, AVG is the quotient total_minutes / count, kept as a fraction
TodayStats(rows) ==
    [count |-> Cardinality(rows),
     total_minutes |-> IF rows = {} THEN NULL ELSE SumMinutes(rows),
     avg_minutes |-> IF rows = {} THEN NULL
                     ELSE [num |-> SumMinutes(rows),
                           den |-> Cardinality(rows)]]

\* WHERE child_id = ? AND DATE(sleep_start) = DATE('now')
\*   AND sleep_end IS NOT NULL
get_sleep_stats_today(d, child_id, t, utc_offset) ==
    TodayStats({r \in d.sleep_tracker :
                  /\ r.child_id = child_id
                  /\ DateOf(r.sleep_start) = DateOf(t - utc_offset)
                  /\ r.sleep_end # NULL})

get_wakefulness_stats_today(d, child_id, t, utc_offset) ==
    TodayStats({r \in d.wakefulness_tracker :
                  /\ r.child_id = child_id
                  /\ DateOf(r.wake_start) = DateOf(t - utc_offset)
                  /\ r.wake_end # NULL})

\* (datetime.now().date() - birth_date).days
age_days(child, t) == DateOf(t) - child.birth_date

\* recommended_wake of end_wake_callback
end_wake_recommended(age) ==
    IF age <= 30 THEN "1-2"
    ELSE IF age <= 90 THEN "1.5-2.5"
    ELSE IF age <= 180 THEN "2-3"
    ELSE "3-4"

\* mutant: the first band ends at 29 days
wake_stats_recommended_shifted(age) ==
    IF age < 30 THEN "1-2"
    ELSE IF age <= 90 THEN "1.5-2.5"
    ELSE IF age <= 180 THEN "2-3"
    ELSE "3-4"

\* recommended_wake of wake_stats_callback
wake_stats_recommended(age) ==
    IF age <= 30 THEN "1-2"
    ELSE IF age <= 90 THEN "1.5-2.5"
    ELSE IF age <= 180 THEN "2-3"
    ELSE "3-4"

sleep_stats_callback(d, chat_id, t, utc_offset) ==
    LET child == get_child(d, chat_id) IN
    IF child = None THEN Result(d, "no_child", <<>>) ELSE
    LET stats == get_sleep_stats_today(d, child.id, t, utc_offset) IN
    IF stats.count > 0 THEN Result(d, "stats", <<>>)
    ELSE Result(d, "no_data", <<>>)

\* avg_minutes = stats['avg_minutes'] % 60 comes before the test
\* avg_minutes > 240: the test sees the remainder
wake_stats_callback(d, chat_id, t, utc_offset) ==
    LET child == get_child(d, chat_id) IN
    IF child = None THEN Result(d, "no_child", <<>>) ELSE
    LET stats == get_wakefulness_stats_today(d, child.id, t, utc_offset) IN
    IF stats.count > 0
    THEN LET avg == stats.avg_minutes
             avg_minutes == [num |-> avg.num % (60 * avg.den),
                             den |-> avg.den]
         IN  IF avg_minutes.num > 240 * avg_minutes.den
             THEN Result(d, "stats_warning", <<>>)
             ELSE Result(d, "stats", <<>>)
    ELSE Result(d, "no_data", <<>>)

----------------------------------------------------------------------------
(* SpecStats: a child of some age sleeps and wakes over some hours and     *)
(* the statistics buttons are pressed.                                     *)

MaxStatTicks == 2        \* the clock stops after this many ticks
StatTickSeconds == 9000  \* seconds per tick: two and a half hours
MaxStatRows == 2         \* sleep and wakefulness rows ever inserted

\* birth dates as day numbers, today being day 0: the edges of the bands
\* of the recommendations, and tomorrow
BirthDates == {1, 0, 0 - 30, 0 - 31, 0 - 90, 0 - 91, 0 - 180, 0 - 181}

StatBounds(d) ==
    d.seq["sleep_tracker"] + d.seq["wakefulness_tracker"] <= MaxStatRows

\* an update handled within the bounds of SpecStats
InStats(A) == A /\ StatBounds(db')

StatTick ==
    /\ now < MaxStatTicks * StatTickSeconds
    /\ now' = now + StatTickSeconds
    /\ UNCHANGED <<db, fsm, last, tasks>>

OnSleepStats(c) ==
    \E utc_offset \in UtcOffsets :
        Handle("sleep_stats_callback", c,
               sleep_stats_callback(db, c, now, utc_offset))

OnWakeStats(c) ==
    \E utc_offset \in UtcOffsets :
        Handle("wake_stats_callback", c,
               wake_stats_callback(db, c, now, utc_offset))

\* the keys of the dictionary of get_development_activities
ActivityKeys == {0, 1, 3, 6, 9}

SetMax(S) == CHOOSE x \in S : \A y \in S : y <= x

\* the key of the entry returned; max() of an empty sequence raises
\* ValueError, and NULL stands for no entry returned
get_development_activities(age_months) ==
    LET keys == {k \in ActivityKeys : k <= age_months}
    IN  IF keys = {} THEN NULL ELSE SetMax(keys)

\* age_days // 30 rounds towards minus infinity, as \div does
age_months_of(child, t) == age_days(child, t) \div 30

tips_menu_callback(d, chat_id, t) ==
    LET child == get_child(d, chat_id) IN
    IF child = None THEN Result(d, "no_child", <<>>) ELSE
    IF get_development_activities(age_months_of(child, t)) = NULL
    THEN Result(d, "raised", <<>>)
    ELSE Result(d, "ok", <<>>)

games_menu_callback(d, chat_id, t) ==
    LET child == get_child(d, chat_id) IN
    IF child = None THEN Result(d, "no_child", <<>>) ELSE
    IF get_development_activities(age_months_of(child, t)) = NULL
    THEN Result(d, "raised", <<>>)
    ELSE Result(d, "ok", <<>>)

OnTipsMenu(c) ==
    Handle("tips_menu_callback", c, tips_menu_callback(db, c, now))

OnGamesMenu(c) ==
    Handle("games_menu_callback", c, games_menu_callback(db, c, now))

InitStats ==
    /\ \E b \in BirthDates :
          db = Registered(EmptyDb, 1,
                          [DefaultChildData EXCEPT !.birth_date = b], 0)
    /\ fsm = FsmInit
    /\ now = 0
    /\ last = NoUpdate
    /\ tasks = <<>>

NextStats ==
    \/ StatTick
    \/ \E c \in TrackedChats : InStats(OnStartSleep(c))
    \/ \E c \in TrackedChats : InStats(OnEndSleep(c))
    \/ \E c \in TrackedChats : InStats(OnStartWake(c))
    \/ \E c \in TrackedChats : InStats(OnEndWake(c))
    \/ \E c \in TrackedChats : InStats(OnSleepStats(c))
    \/ \E c \in TrackedChats : InStats(OnWakeStats(c))
    \/ \E c \in TrackedChats : InStats(OnTipsMenu(c))
    \/ \E c \in TrackedChats : InStats(OnGamesMenu(c))

SpecStats == InitStats /\ [][NextStats]_vars

----------------------------------------------------------------------------
(* C24: the statistics of today *)

\* the child's closed sleeps and wakefulness periods that started today,
\* today being the date of datetime.now()
ClosedSleepsToday(d, child_id, t) ==
    {r \in d.sleep_tracker :
        r.child_id = child_id /\ r.sleep_end # NULL
        /\ DateOf(r.sleep_start) = DateOf(t)}
ClosedWakesToday(d, child_id, t) ==
    {r \in d.wakefulness_tracker :
        r.child_id = child_id /\ r.wake_end # NULL
        /\ DateOf(r.wake_start) = DateOf(t)}

\* count, total and average over a set of closed intervals
StatsOver(stats, rows) ==
    /\ stats.count = Cardinality(rows)
    /\ rows # {} =>
          /\ stats.total_minutes = SumMinutes(rows)
          /\ stats.avg_minutes.num = stats.total_minutes
          /\ stats.avg_minutes.den = stats.count

\* C24 as the specification states it: the sleep and the wakefulness
\* statistics of today are computed over exactly the child's closed
\* intervals that started today (count, total of duration_minutes, average
\* = total / count; an open interval is never counted), whatever the
\* host's offset from UTC
C24_StatsOverTodaysClosed ==
    \A c \in TrackedChats : \A utc_offset \in UtcOffsets :
        LET child == get_child(db, c) IN
        child # None =>
            /\ StatsOver(get_sleep_stats_today(db, child.id, now, utc_offset),
                         ClosedSleepsToday(db, child.id, now))
            /\ StatsOver(get_wakefulness_stats_today(db, child.id, now,
                                                     utc_offset),
                         ClosedWakesToday(db, child.id, now))

----------------------------------------------------------------------------
(* C25: the over-tiredness warning *)

\* C25 as the specification states it: the wakefulness statistics reply
\* carries the over-tiredness warning whenever the average duration of
\* today's closed wakefulness periods is more than 240 minutes
C25_OverTiredWarning ==
    \A c \in TrackedChats : \A utc_offset \in UtcOffsets :
        LET child == get_child(db, c) IN
        child # None =>
            LET stats == get_wakefulness_stats_today(db, child.id, now,
                                                     utc_offset)
            IN  (stats.count > 0
                 /\ stats.avg_minutes.num > 240 * stats.avg_minutes.den)
                    => wake_stats_callback(db, c, now, utc_offset).out
                           = "stats_warning"

----------------------------------------------------------------------------
(* C26: the wake-window recommendation by age *)

\* ages in days around the edges of the bands, negative ages (a birth date
\* after today) included
Ages == {0 - 400, 0 - 1, 0, 1, 30, 31, 90, 91, 180, 181, 400}

\* the band of an age: 0..30, 31..90, 91..180, above 180; an age below 0
\* falls into the first
Band(age) ==
    CASE age <= 30 -> "1-2"
      [] age \in 31..90 -> "1.5-2.5"
      [] age \in 91..180 -> "2-3"
      [] age > 180 -> "3-4"

\* the ages of the registered children and the ages around the band edges
C26_Ages == Ages \cup {age_days(child, now) : child \in db.children}

(* C26: the recommended wake window is a total function of the age in      *)
(* days with the bands 0..30, 31..90, 91..180 and above 180, and           *)
(* end_wake_callback and wake_stats_callback recommend the same for the    *)
(* same age.                                                               *)
C26_SameRecommendation ==
    \A age \in C26_Ages :
        /\ end_wake_recommended(age) = Band(age)
        /\ wake_stats_recommended(age) = end_wake_recommended(age)

\* a child of 91 days whose wakefulness was ended and counted: both
\* replies carry a recommendation
C26_Witness ==
    /\ last.handler = "end_wake_callback" /\ last.out = "ok"
    /\ \E child \in db.children : age_days(child, now) = 91
    /\ wake_stats_callback(db, 1, now, 0).out = "stats"

----------------------------------------------------------------------------
(* C27: the tips menu and the games menu *)

\* C27: for every registered child the tips menu and the games menu
\* produce their reply.  process_birth_date stores any valid date, so a
\* child born tomorrow is a state of the program, and for it both
\* handlers raise.
C27_MenusReply ==
    \A c \in TrackedChats :
        get_child(db, c) # None =>
            /\ tips_menu_callback(db, c, now).out = "ok"
            /\ games_menu_callback(db, c, now).out = "ok"

\* what does hold: the menus reply for every child not born in the future
C27_MenusReplyForBorn ==
    \A c \in TrackedChats :
        LET child == get_child(db, c) IN
        (child # None /\ age_days(child, now) >= 0) =>
            /\ tips_menu_callback(db, c, now).out = "ok"
            /\ games_menu_callback(db, c, now).out = "ok"

----------------------------------------------------------------------------
(* C28: the registration wizard *)

\* the states of ChildRegistration in the order of the wizard
WizardStates ==
    <<"waiting_for_first_name", "waiting_for_last_name", "waiting_for_gender",
      "waiting_for_birth_date", "waiting_for_gestation_weeks",
      "waiting_for_gestation_days", "waiting_for_birth_weight",
      "waiting_for_birth_height">>

\* the key each state's handler stores
WizardFields ==
    <<"first_name", "last_name", "gender", "birth_date", "gestation_weeks",
      "gestation_days", "birth_weight", "birth_height">>

\* a change of the flow state is /register entering the first state, a
\* step to the next state with the step's field stored, or the clear
C28_Order ==
    \A k \in RegKeys :
        fsm'[k].state # fsm[k].state =>
            \/ fsm'[k].state = WizardStates[1]
            \/ fsm'[k] = Cleared
            \/ \E i \in 1..7 :
                  /\ fsm[k].state = WizardStates[i]
                  /\ fsm'[k].state = WizardStates[i + 1]
                  /\ WizardFields[i] \in DOMAIN fsm'[k].data

\* in each state of the wizard the fields of the earlier states are stored
C28_FieldsPresent ==
    \A k \in RegKeys : \A i \in 1..8 :
        fsm[k].state = WizardStates[i] =>
            \A j \in 1..(i - 1) : WizardFields[j] \in DOMAIN fsm[k].data

\* a child is stored only by the last step
C28_CalledFromLast ==
    db'.children # db.children =>
        /\ last'.handler = "process_birth_height"
        /\ \E k \in RegKeys : fsm[k].state = WizardStates[8]

\* the step that stores a child clears the flow state of its user
C28_ClearedAfter ==
    db'.children # db.children =>
        \E k \in RegKeys : /\ fsm[k].state = WizardStates[8]
                           /\ fsm'[k] = Cleared

\* C28: the wizard collects its fields in the fixed order, register_child
\* is called only from the last step with all earlier fields in the data,
\* and after a successful registration the flow state is cleared.
C28_RegistrationWizard ==
    /\ [](C28_FieldsPresent)
    /\ [][C28_Order /\ C28_CalledFromLast /\ C28_ClearedAfter]_vars

\* what does hold: the order, the fields, and the clear when the replies
\* after register_child were sent
C28_ClearedWhenReplied ==
    (db'.children # db.children /\ last'.out = "ok") =>
        \E k \in RegKeys : /\ fsm[k].state = WizardStates[8]
                           /\ fsm'[k] = Cleared

C28_WizardUnlessReplyFails ==
    /\ [](C28_FieldsPresent)
    /\ [][C28_Order /\ C28_CalledFromLast /\ C28_ClearedWhenReplied]_vars

----------------------------------------------------------------------------
(* C29: what the final registration step leaves for the child it stored *)

\* the child c has exactly one measurement, holding its birth weight and
\* height, and three active weight_height reminders of frequency 1, 7 and
\* 30 days due at today + frequency
ChildComplete(d, c, today) ==
    LET ms == {r \in d.measurements : r.child_id = c.id}
        rs == {r \in d.reminders : r.child_id = c.id}
    IN  /\ Cardinality(ms) = 1
        /\ \A r \in ms : r.weight = c.birth_weight /\ r.height = c.birth_height
        /\ Cardinality(rs) = 3
        /\ {r.frequency_days : r \in rs} = {1, 7, 30}
        /\ \A r \in rs : /\ r.reminder_type = "weight_height"
                         /\ r.is_active = 1
                         /\ r.next_reminder = today + r.frequency_days

C29_Step ==
    \A c \in db'.children \ db.children : ChildComplete(db', c, DateOf(now))

\* C29: once the final registration step has stored the child, the child
\* has exactly one measurement with the birth weight and height and three
\* active weight_height reminders of frequency 1, 7 and 30 days due at
\* today+1, today+7 and today+30, also when the confirmation reply fails.
C29_StoredChildComplete == [][C29_Step]_vars

\* what does hold: the child is complete when the step replied
C29_StepReplied ==
    last'.out = "ok" =>
        \A c \in db'.children \ db.children : ChildComplete(db', c, DateOf(now))

C29_CompleteWhenReplied == [][C29_StepReplied]_vars

\* a child stored by a step whose reply failed: no measurement, and the
\* three reminders due today
C29_Incomplete ==
    \E c \in db.children :
        /\ {r \in db.measurements : r.child_id = c.id} = {}
        /\ \A r \in db.reminders : r.child_id = c.id => r.next_reminder = DateOf(now)
        /\ last.out = "error" /\ last.calls = <<"register_child">>

----------------------------------------------------------------------------
(* SpecMeas: children are registered and measured over some days.          *)

MaxMeasChildren == 2   \* children ever inserted
MaxMeasRows == 2       \* measurements ever inserted
MaxMeasDays == 2       \* the clock stops after this many days

\* the child ids add_measurement is called with: the ids of the children
\* and one id more
MeasIds == 1..(MaxMeasChildren + 1)

MeasBounds(d) ==
    /\ d.seq["children"] <= MaxMeasChildren
    /\ d.seq["measurements"] <= MaxMeasRows

\* a call of a Database method within the bounds of SpecMeas
MeasCall(method, arg, r) ==
    /\ MeasBounds(r.db)
    /\ db' = r.db
    /\ last' = [handler |-> method, chat |-> arg,
                out |-> IF r.raised THEN "raised" ELSE "returned",
                calls |-> <<>>]
    /\ UNCHANGED <<fsm, now, tasks>>

MeasDay ==
    /\ now < MaxMeasDays * SecondsPerDay
    /\ now' = now + SecondsPerDay
    /\ UNCHANGED <<db, fsm, last, tasks>>

MeasRegisterChild ==
    \E c \in Chats, k \in FailPoints(1 + Len(RegistrationReminders)) :
        MeasCall("register_child", c,
                 register_child(db, c, DefaultChildData, now, k))

MeasAddMeasurement ==
    \E id \in MeasIds, k \in FailPoints(2) :
        MeasCall("add_measurement", id,
                 add_measurement(db, id, 3500, 52, now, k))

NextMeas ==
    \/ MeasDay
    \/ MeasRegisterChild
    \/ MeasAddMeasurement

SpecMeas == InitDb /\ [][NextMeas]_vars

----------------------------------------------------------------------------
(* C30: add_measurement *)

\* the reminder r after add_measurement(child_id) returned on day today
Moved(r, child_id, today) ==
    IF r.child_id = child_id /\ r.reminder_type = "weight_height"
       /\ r.is_active = 1
    THEN [r EXCEPT !.next_reminder = today + r.frequency_days]
    ELSE r

\* d2 is d after add_measurement(child_id, weight, height) returned
Measured(d, d2, child_id, weight, height, today) ==
    IF \E c \in d.children : c.id = child_id
    THEN /\ d.measurements \subseteq d2.measurements
         /\ Cardinality(d2.measurements \ d.measurements) = 1
         /\ \A r \in d2.measurements \ d.measurements :
               /\ r.child_id = child_id
               /\ r.weight = weight /\ r.height = height
         /\ d2.reminders = {Moved(r, child_id, today) : r \in d.reminders}
         /\ d2.children = d.children
    ELSE d2 = d

\* C30: add_measurement for an existing child inserts exactly one
\* measurement and moves every active weight_height reminder of that child
\* to today plus its frequency_days, leaving the reminders of other
\* children unchanged; for a child id that does not exist it inserts
\* nothing and changes no reminder.
C30_AddMeasurement ==
    \A id \in MeasIds :
        Measured(db, add_measurement(db, id, 3500, 52, now, 0).db,
                 id, 3500, 52, DateOf(now))

\* child 1 was measured a day after two children were registered: its
\* reminders moved, those of child 2 are where register_child put them
C30_Witness ==
    /\ last.handler = "add_measurement" /\ last.chat = 1
    /\ last.out = "returned"
    /\ now = SecondsPerDay
    /\ \E r \in db.measurements : r.child_id = 1
    /\ \A r \in db.reminders :
          /\ r.child_id = 1 => r.next_reminder = 1 + r.frequency_days
          /\ r.child_id = 2 => r.next_reminder = 0
    /\ \E r \in db.reminders : r.child_id = 2

----------------------------------------------------------------------------
(* C31: one poll of the reminder loop *)

\* the ids of the reminders sent in the poll of the task
SentIds(task) == {task.sent[i] : i \in 1..Len(task.sent)}

\* the poll under way ends with this step
PollEnds == tasks[1].pc = "send" /\ tasks'[1].pc = "sleep"

\* when the poll ends, the reminders that were still to handle after the
\* one in hand have been sent
C31_Step ==
    PollEnds =>
        \A i \in 2..Len(tasks[1].todo) :
            tasks[1].todo[i].id \in SentIds(tasks'[1])

\* C31: in one poll every due active reminder whose child exists gets its
\* message sent; a failure while sending one reminder does not prevent
\* the remaining due reminders of that poll from being sent.
C31_FailureSkipsNoReminder == [][C31_Step]_vars

\* what does hold: a poll that ends without an exception has sent every
\* reminder it fetched
C31_CompletedStep ==
    (PollEnds /\ tasks'[1].after = "completed") =>
        /\ Len(tasks[1].todo) = 1
        /\ Head(tasks[1].todo).id \in SentIds(tasks'[1])

C31_CompletedPollSentAll == [][C31_CompletedStep]_vars

----------------------------------------------------------------------------
(* C32: how often a reminder is sent.  No measurement is recorded in       *)
(* SpecRem, so no reminder becomes due anew.                               *)

\* the chat of the reminder with this id
ChatOfReminder(d, id) == (CHOOSE r \in d.reminders : r.id = id).chat_id

\* the messages of the poll under way went to different chats
C32_OnePerChat ==
    \A i, j \in 1..Len(tasks[1].sent) :
        i # j => ChatOfReminder(db, tasks[1].sent[i])
                   # ChatOfReminder(db, tasks[1].sent[j])

\* no reminder sent in an earlier poll is sent in this one
C32_NotSentAgain == SentIds(tasks[1]) \cap tasks[1].done = {}

\* C32: a chat receives at most one reminder message per poll, and a
\* reminder that has been sent is not sent again on later polls until a
\* new measurement is recorded and it becomes due again.
C32_OncePerChatAndUntilMeasured == C32_OnePerChat /\ C32_NotSentAgain

\* a second message to chat 1 in one poll
C32_TwoInOnePoll ==
    \E i, j \in 1..Len(tasks[1].sent) :
        /\ i # j
        /\ ChatOfReminder(db, tasks[1].sent[i]) = 1
        /\ ChatOfReminder(db, tasks[1].sent[j]) = 1

\* the daily reminder of a child measured at birth is sent by the poll of
\* the second day and again by that of the third, by polls that completed
C32_SentOnTwoDays ==
    /\ now = 48 * HourSeconds
    /\ tasks[1].after = "completed"
    /\ Cardinality(db.measurements) = Cardinality(db.children)
    /\ SentIds(tasks[1]) \cap tasks[1].done # {}

----------------------------------------------------------------------------
(* SpecFlow: the input flows of one user of chat 1 (registration,          *)
(* parameter update, note, medication weight, custom feeding amount) with  *)
(* buttons pressed and commands sent at any point of a flow.               *)

MaxFlowNotes == 1         \* journal notes ever inserted
MaxFlowMeasurements == 2  \* measurements ever inserted
MaxFlowFeedings == 1      \* feedings ever inserted
MaxFlowEatenMl == 1       \* mL added to one feeding

FlowKeys == {<<1, 1>>}

\* the commands the router has handlers for before the flows' own
FlowCommands == {"/start", "/menu", "/help", "/register"}

FlowBounds(d) ==
    /\ d.seq["children"] <= 1
    /\ d.seq["journal_notes"] <= MaxFlowNotes
    /\ d.seq["measurements"] <= MaxFlowMeasurements
    /\ d.seq["feedings"] <= MaxFlowFeedings
    /\ \A r \in d.feedings : r.total_eaten_ml <= MaxFlowEatenMl

\* an update handled within the bounds of SpecFlow
InFlow(A) == A /\ FlowBounds(db')

\* main_menu_callback takes no FSMContext: it reads the child, shows the
\* menu and leaves the flow state as it is
main_menu_callback(d, e, chat_id) == FsmResult(d, e, "ok", <<>>)

OnMainMenu(c, u) ==
    HandleFsm("main_menu_callback", c, u,
              main_menu_callback(db, fsm[<<c, u>>], c))

\* a text message: a reply to the prompt of the flow, or a command
OnFlowText(c, u) ==
    \E text \in (IF fsm[<<c, u>>].state \in {"None", "waiting_for_gender"}
                 THEN {} ELSE Texts(fsm[<<c, u>>].state)) \cup FlowCommands,
       sent \in BOOLEAN :
        HandleFsm(message_handler(fsm[<<c, u>>], text), c, u,
                  on_message(db, fsm[<<c, u>>], c, text, now, sent, "none"))

InitFlow ==
    /\ db \in {EmptyDb, RegisteredAll(EmptyDb, {1})}
    /\ fsm = FsmInit
    /\ now = 0
    /\ last = NoUpdate
    /\ tasks = <<>>

NextFlow ==
    \/ \E k \in FlowKeys : InFlow(OnFlowText(k[1], k[2]))
    \/ \E k \in FlowKeys : InFlow(OnGender(k[1], k[2]))
    \/ \E k \in FlowKeys : InFlow(OnParamsCmd(k[1], k[2]))
    \/ \E k \in FlowKeys : InFlow(OnNoteMenu(k[1], k[2]))
    \/ \E k \in FlowKeys : InFlow(OnMedicationCalc(k[1], k[2]))
    \/ \E k \in FlowKeys : InFlow(OnAddCustom(k[1], k[2]))
    \/ \E k \in FlowKeys : InFlow(OnMainMenu(k[1], k[2]))
    \/ \E k \in FlowKeys : InFlow(OnStartFeeding(k[1]))
    \/ \E k \in FlowKeys : InFlow(OnFinishFeeding(k[1]))
    \/ \E k \in FlowKeys : InFlow(OnCancelFeeding(k[1]))

SpecFlow == InitFlow /\ [][NextFlow]_vars

----------------------------------------------------------------------------
(* C33: a pending note prompt and navigation *)

\* the journal notes after the user, with the flow entry e, sends a text
NotesAfterText(d, e, chat_id, text, t) ==
    on_message(d, e, chat_id, text, t, TRUE, "none").db.journal_notes

\* C33: a text is stored as a journal note only when it is the reply to
\* the note prompt: after the note menu was opened and the user went to
\* the main menu or pressed another button, the note input is no longer
\* active and a later text is not saved as a note.
C33_NavigationEndsNotePrompt ==
    \A k \in FlowKeys :
        fsm[k].state = "waiting_for_note" =>
            LET menu == main_menu_callback(db, fsm[k], k[1])
                feed == start_feeding_callback(db, k[1], now, TRUE, "none")
            IN  /\ menu.e.state # "waiting_for_note"
                /\ NotesAfterText(menu.db, menu.e, k[1], "hello", now)
                     = db.journal_notes
                /\ NotesAfterText(feed.db, fsm[k], k[1], "hello", now)
                     = db.journal_notes

\* what does hold: a button that starts another flow replaces the note
\* prompt, and no text is stored as a note outside the note prompt
C33_OtherFlowEndsNotePrompt ==
    \A k \in FlowKeys :
        /\ fsm[k].state = "waiting_for_note" =>
              LET med == medication_calc_callback(db, fsm[k],
                                                  "med_paracetamol", TRUE)
              IN  NotesAfterText(med.db, med.e, k[1], "hello", now)
                    = db.journal_notes
        /\ fsm[k].state # "waiting_for_note" =>
              NotesAfterText(db, fsm[k], k[1], "hello", now)
                = db.journal_notes

----------------------------------------------------------------------------
(* C34: commands sent while a flow waits for input *)

\* the handler of each command
CommandHandler ==
    [text \in FlowCommands |->
       CASE text = "/start" -> "start_cmd"
         [] text = "/menu" -> "menu_cmd"
         [] text = "/help" -> "help_cmd"
         [] text = "/register" -> "register_child_cmd"]

\* C34: /start, /menu, /help and /register are handled as commands
\* whatever input-collection state the user is in; a command message is
\* never consumed as the typed input of a pending flow.
C34_CommandsHandledAsCommands ==
    \A k \in FlowKeys : \A text \in FlowCommands :
        message_handler(fsm[k], text) = CommandHandler[text]

\* what does hold: the flows whose handlers are registered after the
\* commands (registration, parameter update) leave the commands alone
C34_CommandsInLaterFlows ==
    \A k \in FlowKeys : \A text \in FlowCommands :
        fsm[k].state \notin {"waiting_for_note", "waiting_for_weight_for_med",
                             "waiting_for_custom_amount"} =>
            message_handler(fsm[k], text) = CommandHandler[text]

\* a command was stored as a journal note
C34_CommandStoredAsNote ==
    \E r \in db.journal_notes : r.note \in FlowCommands

----------------------------------------------------------------------------
(* C35: the custom feeding amount flow *)

\* the flow is entered only while a feeding of the chat is open
C35_EnteredWhileOpen ==
    \A k \in EatKeys :
        (fsm[k].state # "waiting_for_custom_amount"
         /\ fsm'[k].state = "waiting_for_custom_amount") =>
            get_active_feeding(db, k[1]) # None

\* the reply "1" to the prompt, the feeding open: 1 mL is added to it and
\* the flow state is cleared
Accepted(d, e, chat_id, sent) ==
    LET feeding == get_active_feeding(d, chat_id)
        r == process_custom_amount(d, e, chat_id, "1", sent, "none")
    IN  /\ StoredEaten(r.db, feeding.id) = Eaten(feeding) + 1
        /\ r.e = Cleared

\* the reply "1" to the prompt adds nothing to any feeding and clears the
\* flow state
Dropped(d, e, chat_id, sent) ==
    LET r == process_custom_amount(d, e, chat_id, "1", sent, "none")
    IN  r.db.feedings = d.feedings /\ r.e = Cleared

\* the database after the open feeding was finished and, for again = TRUE,
\* the next one started
AfterFinish(d, chat_id, t, again) ==
    LET d1 == finish_feeding_callback(d, chat_id, t, TRUE, "none").db
    IN  IF again THEN start_feeding_callback(d1, chat_id, t, TRUE, "none").db
        ELSE d1

C35_Replies ==
    \A k \in EatKeys :
        (fsm[k].state = "waiting_for_custom_amount"
         /\ get_active_feeding(db, k[1]) # None) =>
            \A sent \in BOOLEAN :
                /\ Accepted(db, fsm[k], k[1], sent)
                /\ \A again \in BOOLEAN :
                      Dropped(AfterFinish(db, k[1], now, again), fsm[k],
                              k[1], sent)

\* C35: the custom feeding amount flow always ends: it is entered only
\* while a feeding is open, an accepted amount (1..500) is added to the
\* open feeding and clears the flow state, and a reply received after the
\* feeding was finished or cancelled adds nothing to any feeding and
\* clears the flow state.
C35_CustomAmountFlowEnds == [](C35_Replies) /\ [][C35_EnteredWhileOpen]_vars

\* what does hold: the same when the replies of the handler are sent and
\* no feeding has been started after the one that was finished
C35_RepliesSent ==
    \A k \in EatKeys :
        (fsm[k].state = "waiting_for_custom_amount"
         /\ get_active_feeding(db, k[1]) # None) =>
            /\ Accepted(db, fsm[k], k[1], TRUE)
            /\ Dropped(AfterFinish(db, k[1], now, FALSE), fsm[k], k[1], TRUE)

C35_FlowEndsWhenReplied == [](C35_RepliesSent) /\ [][C35_EnteredWhileOpen]_vars

\* the amount typed for a feeding that was finished went to the next one:
\* a closed feeding, a later open one holding 1 mL, the flow cleared
C35_AddedToNextFeeding ==
    /\ last.handler = "process_custom_amount"
    /\ \E r \in db.feedings, q \in db.feedings :
          /\ r.end_time # NULL /\ Eaten(r) = 0
          /\ q.end_time = NULL /\ q.id > r.id /\ Eaten(q) = 1

----------------------------------------------------------------------------
(* SpecDiaper: the diaper buttons of two registered chats over some days.  *)
(* The days are bounded by MaxMeasDays.                                    *)

MaxDiaperEvents == 3   \* diaper events ever inserted

\* every button of the diaper menu
AllDiaperButtons == DOMAIN diaper_type_map

\* an update handled within the bounds of SpecDiaper
InDiaper(A) == A /\ db'.seq["diaper_tracker"] <= MaxDiaperEvents

InitDiaper ==
    /\ \E S \in {{1}, Chats} : db = RegisteredAll(EmptyDb, S)
    /\ fsm = FsmInit
    /\ now = 0
    /\ last = NoUpdate
    /\ tasks = <<>>

NextDiaper ==
    \/ MeasDay
    \/ \E c \in Chats : InDiaper(OnDiaper(c))

SpecDiaper == InitDiaper /\ [][NextDiaper]_vars

----------------------------------------------------------------------------
(* C36: the diaper buttons *)

\* d2 is d after a press of the button `data` for child_id on day today:
\* one diaper event more, of the type of the button, and the checklist of
\* the day marked
Pressed(d, d2, child_id, data, today) ==
    /\ d.diaper_tracker \subseteq d2.diaper_tracker
    /\ Cardinality(d2.diaper_tracker \ d.diaper_tracker) = 1
    /\ \A r \in d2.diaper_tracker \ d.diaper_tracker :
          r.child_id = child_id /\ r.type = diaper_type_map[data]
    /\ \E r \in d2.daily_checklists :
          r.child_id = child_id /\ r.date = today /\ r.diapers_changed = 1

\* at most one daily_checklists row per child and date
OneChecklistPerDay(d) ==
    \A r, q \in d.daily_checklists :
        (r.child_id = q.child_id /\ r.date = q.date) => r = q

\* C36: each diaper button press by a registered chat creates exactly one
\* diaper event of the chosen type and marks diapers_changed in today's
\* checklist, and after any number of presses there is at most one
\* daily_checklists row per child and date.
C36_DiaperPress ==
    /\ OneChecklistPerDay(db)
    /\ \A c \in Chats : \A data \in AllDiaperButtons :
          get_child(db, c) # None =>
              LET r == process_diaper_callback(db, c, data, now, "none")
              IN  /\ r.out = "ok"
                  /\ Pressed(db, r.db, get_child(db, c).id, data, DateOf(now))
                  /\ OneChecklistPerDay(r.db)

\* the child of chat 1 had diapers changed twice on the first day and once
\* on the second: three events, two checklist rows
C36_Witness ==
    /\ last.handler = "process_diaper_callback" /\ last.out = "ok"
    /\ now = SecondsPerDay
    /\ Cardinality({r \in db.diaper_tracker : r.child_id = 1}) = 3
    /\ Cardinality({r \in db.daily_checklists : r.child_id = 1}) = 2
    /\ \E r \in db.diaper_tracker : r.child_id = 1 /\ r.timestamp = 0
                                     /\ r.type = "both"

----------------------------------------------------------------------------
(* SpecParams: the parameter update flow of a registered chat, with the    *)
(* clock running.                                                          *)

MaxParamMeasurements == 3  \* measurements ever inserted, the birth one included

ParamKeys == {<<1, 1>>}

\* an update handled within the bounds of SpecParams
InParams(A) == A /\ db'.seq["measurements"] <= MaxParamMeasurements

\* a reply to the weight or the height prompt
OnParamText(c, u) ==
    /\ fsm[<<c, u>>].state \in {"waiting_for_weight", "waiting_for_height"}
    /\ \E text \in Texts(fsm[<<c, u>>].state), sent \in BOOLEAN,
          fail \in {"none", "add_measurement"} :
          HandleFsm(message_handler(fsm[<<c, u>>], text), c, u,
                    on_message(db, fsm[<<c, u>>], c, text, now, sent, fail))

InitParams ==
    /\ db = RegisteredAll(EmptyDb, {1})
    /\ fsm = FsmInit
    /\ now = 0
    /\ last = NoUpdate
    /\ tasks = <<>>

NextParams ==
    \/ Tick
    \/ \E k \in ParamKeys : InParams(OnParamsCmd(k[1], k[2]))
    \/ \E k \in ParamKeys : InParams(OnParamText(k[1], k[2]))

SpecParams == InitParams /\ [][NextParams]_vars

----------------------------------------------------------------------------
(* C37: the measurement shown after a parameter update *)

\* the height 52 is sent to the height prompt and stored; get_last_measurement
\* can return only the measurement just recorded
LastIsNew(d, e, chat_id, t) ==
    LET r == process_height(d, e, chat_id, "52", t, TRUE, "none")
        child == get_child(d, chat_id)
    IN  /\ r.out = "ok"
        /\ last_measurement_rows(r.db, child.id)
             = r.db.measurements \ d.measurements

\* C37: after a successful parameter update get_last_measurement returns
\* the measurement just recorded, also when another measurement of the
\* same child was recorded earlier on the same day or within the same
\* second.
C37_LastMeasurementIsNew ==
    \A k \in ParamKeys :
        fsm[k].state = "waiting_for_height" =>
            LastIsNew(db, fsm[k], k[1], now)

\* what does hold: the same, when no measurement of the child was recorded
\* in the second of the update
C37_LastIsNewInLaterSecond ==
    \A k \in ParamKeys :
        (/\ fsm[k].state = "waiting_for_height"
         /\ \A m \in db.measurements :
               m.child_id = get_child(db, k[1]).id => m.recorded_at < now) =>
            LastIsNew(db, fsm[k], k[1], now)

\* an update on the day of an earlier measurement, in a later second
C37_SameDayLaterSecond ==
    /\ last.handler = "process_height" /\ last.out = "ok"
    /\ \E m, q \in db.measurements :
          /\ m.child_id = q.child_id
          /\ m.measurement_date = q.measurement_date
          /\ m.recorded_at < q.recorded_at
          /\ last_measurement_rows(db, q.child_id) = {q}

====
